---- MODULE Spec2Model ----
(***************************************************************************)
(* boardgame.io server: the real-time synchronization server (sync /       *)
(* update / disconnect over socket connections) and the lobby API          *)
(* (create / join / rename / leave / playAgain) over one storage backend.  *)
(*                                                                         *)
(* src/ holds the server's test suites (unnamed/part_003 for the socket    *)
(* server, unnamed/part_002 for the lobby API); the handlers themselves    *)
(* (server/index.js, server/api.js) are modelled from spec.md, and every   *)
(* value the tests pin down (initial ctx, the effect of endTurn, the       *)
(* playerView redaction, the registry maps) is taken from the tests.       *)
(* The client's Debug panel (src/client/debug/debug.js) is modelled from   *)
(* its code: the assignment of keyboard shortcuts to moves and events.     *)
(***************************************************************************)
EXTENDS Integers, Sequences, FiniteSets, TLC

\* ------------------------------------------------------------------ bounds
MaxVersion == 2        \* updates carry a stateID below MaxVersion, so _stateID <= MaxVersion
MaxMoves == 2          \* a Debug panel is given at most MaxMoves moves
MaxEvents == 1         \* and at most MaxEvents events

\* --------------------------------------------------------- program values
DefaultNumPlayers == 2 \* numPlayers when the request omits it
Undefined == "undefined"
CodeOfA == 97          \* let next = 97, the character code of 'a'

Conns == {"first", "second"}             \* socket.id of the connections
ServerConns == {"first"}                 \* the connection next to the lobby
RoomIDs == {"gameID", "other"}           \* room identifiers (gameID)
AllPlayOrder == <<"0", "1", "2", "3">>
NumPlayersArgs == {<<>>, <<3>>}          \* numPlayers of a request: omitted, or 3
BadPlayer == "100"                       \* a playerID of no player of the game
PlayerArgs == {"0", "1", BadPlayer}      \* playerID sent with an update
StateIDArgs == 0..(MaxVersion - 1)       \* stateID sent with an update
SyncPlayerArgs == {"0", "1"}             \* playerID sent with a sync
Games == {"foo"}                         \* the registered game definitions
GameNameArgs == {"foo", "unknown"}
SetupArgs == {Undefined, "colors"}
Blank == ""                              \* a field sent empty
AllSecrets == <<"SECRET1", "SECRET2">>  \* generateCredentials(), in order
Secrets == {AllSecrets[i] : i \in 1..Len(AllSecrets)}
SoloArgs == {<<1>>}                                \* numPlayers of a create: 1
RoomSizeArgs == {<<>>, <<1>>}                      \* numPlayers of a playAgain: omitted, or 1
PlayerIDArgs == {Undefined, "0", "1"}              \* playerID of a lobby request
JoinPlayerIDArgs == PlayerIDArgs \cup {Blank}      \* playerID of a join
PlayerNameArgs == {Undefined, Blank, "alice"}      \* playerName of a join
NewNameArgs == {Undefined, "ali"}                  \* newName of a rename
CredentialsArgs == {Undefined} \cup Secrets        \* credentials of a lobby request
HeaderArgs == {Undefined, "protected", "wrong"}    \* API-Secret header of a lobby request
SecretConfigs == {Undefined, "protected"}          \* process.env.API_SECRET
Callers == {"alice", "bob"}                        \* two clients of the lobby, by name
StoredRoomID == "1"                                \* the room the join and playAgain tests address

VARIABLES
    db,          \* StateStore: gameID -> GameState | NoState
    meta,        \* StateStore: gameID -> RoomMetadata | NoMeta
    clientInfo,  \* socket.id -> {gameID, playerID} | NoInfo
    roomInfo,    \* gameID -> (socket.id -> playerID), the room's members
    req,         \* socket.id -> its update in flight | Idle
    applied,     \* history: gameID -> (expectedVersion -> updates accepted against it)
    created,     \* the room identifiers lobbyConfig.uuid() has generated
    issued,      \* how many credentials generateCredentials() has generated
    last,        \* the last handler that ran: its result and every message it emitted
    apiSecret,   \* process.env.API_SECRET, Undefined when the lobby is unprotected
    header,      \* the API-Secret header of the last lobby request
    faulty,      \* whether calls of the StateStore can fail
    fault,       \* which StateStore call of the last request failed, 0 when none did
    txn,         \* lobby caller -> its request between fetch and write | its response
    props,       \* Debug panel: this.props, the names of the moves and of the events
    shortcuts    \* Debug panel: this.shortcuts, [byName: name -> key] | NoShortcuts

vars == <<db, meta, clientInfo, roomInfo, req, applied, created, issued, last,
          apiSecret, header, faulty, fault, txn, props, shortcuts>>

NoState == [none |-> TRUE]
NoMeta == [none |-> TRUE]
NoInfo == [none |-> TRUE]
NoProps == [none |-> TRUE]
NoShortcuts == [none |-> TRUE]
Idle == [pc |-> "idle"]

\* ------------------------------------------------------ Transition Engine
PlayOrder(numPlayers) == SubSeq(AllPlayOrder, 1, numPlayers)

PlayerIDs(numPlayers) == {PlayOrder(numPlayers)[i] : i \in 1..numPlayers}

\* A server that always starts the default number of players.
NumPlayersOr_IgnoresRequest(numPlayers) == DefaultNumPlayers

\* numPlayers of the request, 2 when the request has none.
NumPlayersOr(numPlayers) ==
    IF numPlayers = <<>> THEN DefaultNumPlayers ELSE numPlayers[1]

\* A setup that is not handed the request's setupData.
Setup_DropsSetupData(setupData) == "empty"

\* game.setup(ctx, setupData) of the lobby test's game definition.
Setup(setupData) ==
    IF setupData = Undefined THEN "empty" ELSE setupData

\* The state a fresh store holds: ctx of turn 0, _stateID 0.
InitialState(numPlayers, setupData) ==
    [G |-> Setup(setupData),
     numPlayers |-> numPlayers,
     currentPlayer |-> PlayOrder(numPlayers)[1],
     playOrderPos |-> 0,
     turn |-> 0,
     stateID |-> 0]

\* An engine that lets any playerID call the event.
CanPlayerCallEvent_Anyone(state, playerID) == TRUE

\* The engine's verdict: only a player of actionPlayers (the current player)
\* may call the endTurn event.
CanPlayerCallEvent(state, playerID) ==
    playerID = state.currentPlayer

\* A reducer that passes the turn but leaves _stateID as it was.
ApplyAction_KeepsStateID(state) ==
    LET pos == (state.playOrderPos + 1) % state.numPlayers
    IN [state EXCEPT !.playOrderPos = pos,
                     !.currentPlayer = PlayOrder(state.numPlayers)[pos + 1],
                     !.turn = state.turn + 1]

\* endTurn: the next player of playOrder gets the turn, _stateID goes up by one.
ApplyAction(state) ==
    LET pos == (state.playOrderPos + 1) % state.numPlayers
    IN [state EXCEPT !.playOrderPos = pos,
                     !.currentPlayer = PlayOrder(state.numPlayers)[pos + 1],
                     !.turn = state.turn + 1,
                     !.stateID = state.stateID + 1]

\* A view that is computed for player '0' whoever receives it.
PlayerView_SameForAll(state, playerID) ==
    [state EXCEPT !.G = [G |-> state.G, player |-> "0"]]

\* game.playerView(G, ctx, playerID): the redaction of the state for one player.
PlayerView(state, playerID) ==
    [state EXCEPT !.G = [G |-> state.G, player |-> playerID]]

\* --------------------------------------------------- Connection Registry
Members(gameID) == DOMAIN roomInfo[gameID]

Without(f, c) == [x \in (DOMAIN f) \ {c} |-> f[x]]

With(f, c, v) == [x \in (DOMAIN f) \cup {c} |-> IF x = c THEN v ELSE f[x]]

\* The room the connection is registered to, if any.
RoomOf(c) == IF clientInfo[c] = NoInfo THEN Undefined ELSE clientInfo[c].gameID

\* A register that leaves the connection in its previous room's member set.
Register_KeepsOldRoom(c, gameID, playerID) ==
    /\ roomInfo' = [roomInfo EXCEPT ![gameID] = With(@, c, playerID)]
    /\ clientInfo' = [clientInfo EXCEPT ![c] = [gameID |-> gameID, playerID |-> playerID]]

\* register: leave the previous room's member set, join the new one.
Register(c, gameID, playerID) ==
    LET left == [r \in RoomIDs |-> Without(roomInfo[r], c)]
    IN /\ roomInfo' = [left EXCEPT ![gameID] = With(left[gameID], c, playerID)]
       /\ clientInfo' = [clientInfo EXCEPT ![c] = [gameID |-> gameID, playerID |-> playerID]]

\* An unregister that empties the member set of the connection's room.
Unregister_ClearsRoom(c) ==
    IF clientInfo[c] = NoInfo
    THEN UNCHANGED <<clientInfo, roomInfo>>
    ELSE /\ roomInfo' = [roomInfo EXCEPT ![clientInfo[c].gameID] = << >>]
         /\ clientInfo' = [clientInfo EXCEPT ![c] = NoInfo]

\* unregister: drop the identity and the membership; unknown connections are ignored.
Unregister(c) ==
    IF clientInfo[c] = NoInfo
    THEN UNCHANGED <<clientInfo, roomInfo>>
    ELSE /\ roomInfo' = [roomInfo EXCEPT ![clientInfo[c].gameID] = Without(@, c)]
         /\ clientInfo' = [clientInfo EXCEPT ![c] = NoInfo]

\* ------------------------------------------------------------- messages
Msg(to, type, gameID, state) ==
    [to |-> to, type |-> type, gameID |-> gameID, state |-> state]

RECURSIVE Emit(_, _, _)
\* One 'update' message for each member of the room, each with its own view.
Emit(members, gameID, state) ==
    IF DOMAIN members = {} THEN <<>>
    ELSE LET c == CHOOSE x \in DOMAIN members : TRUE
         IN <<Msg(c, "update", gameID, PlayerView(state, members[c]))>>
            \o Emit(Without(members, c), gameID, state)

NoArgs == [none |-> TRUE]

\* What a handler did: its outcome, the messages it emitted, its response body.
Result(op, result, msgs) ==
    [op |-> op, result |-> result, msgs |-> msgs, args |-> NoArgs, body |-> Undefined]

UpdateResult(result, msgs, stateID, gameID, playerID) ==
    [Result("update", result, msgs) EXCEPT
        !.args = [stateID |-> stateID, gameID |-> gameID, playerID |-> playerID]]

NoVersions == [v \in 0..MaxVersion |-> 0]

\* ------------------------------------------------------------------ Init
\* A server with an empty store, started with this API secret on a store
\* whose calls fail or do not.
ServerStarted(secret, storeFails) ==
    /\ db = [r \in RoomIDs |-> NoState]
    /\ meta = [r \in RoomIDs |-> NoMeta]
    /\ clientInfo = [c \in Conns |-> NoInfo]
    /\ roomInfo = [r \in RoomIDs |-> << >>]
    /\ req = [c \in Conns |-> Idle]
    /\ applied = [r \in RoomIDs |-> NoVersions]
    /\ created = {}
    /\ issued = 0
    /\ last = Result("start", "ok", <<>>)
    /\ apiSecret = secret
    /\ header = Undefined
    /\ faulty = storeFails
    /\ fault = 0
    /\ txn = [k \in Callers |-> Idle]

\* The tests' server: no API secret, a store that answers every call.
\* No Debug panel has been constructed.
Unmounted == props = NoProps /\ shortcuts = NoShortcuts

\* The server after construction, without a Debug panel.
Started(secret, storeFails) == ServerStarted(secret, storeFails) /\ Unmounted

Init == Started(Undefined, FALSE)

\* -------------------------------------------------------------- StateStore
\* The calls a handler makes on the store, in the order it makes them.
Fetch(gameID) == [call |-> "fetch", id |-> gameID]

SetState(gameID, state) == [call |-> "setState", id |-> gameID, value |-> state]

SetMetadata(gameID, metadata) ==
    [call |-> "setMetadata", id |-> gameID, value |-> metadata]

Wipe(gameID) == [call |-> "wipe", id |-> gameID]

\* db.wipe(gameID): the store drops the room's state ...
WipedStates(states, gameID) == [states EXCEPT ![gameID] = NoState]

\* A wipe that leaves the room's metadata in the store.
WipedMetadata_Kept(metadata, gameID) == metadata

\* ... and the room's metadata.
WipedMetadata(metadata, gameID) == [metadata EXCEPT ![gameID] = NoMeta]

RECURSIVE StatesAfter(_, _)
\* The stored states after these calls.
StatesAfter(states, calls) ==
    IF Len(calls) = 0 THEN states
    ELSE LET first == Head(calls)
         IN StatesAfter(IF first.call = "setState"
                        THEN [states EXCEPT ![first.id] = first.value]
                        ELSE IF first.call = "wipe"
                        THEN WipedStates(states, first.id)
                        ELSE states,
                        Tail(calls))

RECURSIVE MetadataAfter(_, _)
\* The stored metadata after these calls.
MetadataAfter(metadata, calls) ==
    IF Len(calls) = 0 THEN metadata
    ELSE LET first == Head(calls)
         IN MetadataAfter(IF first.call = "setMetadata"
                          THEN [metadata EXCEPT ![first.id] = first.value]
                          ELSE IF first.call = "wipe"
                          THEN WipedMetadata(metadata, first.id)
                          ELSE metadata,
                          Tail(calls))

\* The call of a request that fails: none (0), or any one of them when the
\* store can fail.
FailurePoints(calls) == IF faulty THEN 0..Len(calls) ELSE {0}

\* A handler that leaves in the store what it wrote before the failing call.
Applied_UpToFailure(calls, failure) ==
    IF failure = 0 THEN calls ELSE SubSeq(calls, 1, failure - 1)

\* The calls that take effect: all of them, or none when one of them failed
\* (a storage failure aborts the operation without partial writes).
Applied(calls, failure) == IF failure = 0 THEN calls ELSE <<>>

\* The handler's calls reach the store.
Store(calls, failure) ==
    /\ db' = StatesAfter(db, Applied(calls, failure))
    /\ meta' = MetadataAfter(meta, Applied(calls, failure))
    /\ fault' = failure

\* ------------------------------------------------------ Room Synchronizer
\* A server that answers from the state the room was first created with.
StoredState_AsFirstCreated(gameID) ==
    IF db[gameID] = NoState THEN NoState
    ELSE InitialState(db[gameID].numPlayers, Undefined)

\* db.get(gameID): the state the store holds now.
StoredState(gameID) == db[gameID]

\* sync(gameID, playerID, numPlayers) on connection c.
Sync(c, gameID, playerID, numPlayers) ==
    LET state == IF StoredState(gameID) = NoState
                 THEN InitialState(NumPlayersOr(numPlayers), Undefined)
                 ELSE StoredState(gameID)
    IN /\ Register(c, gameID, playerID)
       /\ db' = [db EXCEPT ![gameID] = state]
       /\ fault' = 0
       /\ last' = [Result("sync", "ok",
                           <<Msg(c, "sync", gameID, PlayerView(state, playerID))>>)
                      EXCEPT !.args = [conn |-> c, numPlayers |-> numPlayers,
                                       from |-> RoomOf(c)]]
       /\ UNCHANGED <<meta, req, applied, created, issued, apiSecret, header, faulty, txn,
                      props, shortcuts>>

\* Some connection registered to the room has this playerID as its identity.
IsMember(gameID, playerID) ==
    \E d \in DOMAIN roomInfo[gameID] : roomInfo[gameID][d] = playerID

InFlight(gameID) ==
    {c \in Conns : req[c] # Idle /\ req[c].gameID = gameID}

\* A synchronizer that takes up an update while another is in progress.
RoomFree_NoSerialization(gameID) == TRUE

\* The synchronizer of a room takes one update at a time.
RoomFree(gameID) == InFlight(gameID) = {}

\* db.get(gameID) found a state.
GameExists(state) == state # NoState

\* A server that does not consult the authenticator.
ActionAuthentic_NotChecked(authentic) == TRUE

\* isActionFromAuthenticPlayer, the external authenticator's answer.
ActionAuthentic(authentic) == authentic

\* A server that applies an update whatever stateID it carries.
VersionMatches_NotChecked(state, stateID) == TRUE

\* The stateID the client sent is the stored one.
VersionMatches(state, stateID) == state.stateID = stateID

\* The validation steps of an update, in order; "ok" admits it.
Verdict(state, stateID, playerID, authentic) ==
    IF ~GameExists(state) THEN "no game"
    ELSE IF ~ActionAuthentic(authentic) THEN "unauthorized"
    ELSE IF ~VersionMatches(state, stateID) THEN "stale"
    ELSE IF ~CanPlayerCallEvent(state, playerID) THEN "illegal"
    ELSE "ok"

\* update(action, stateID, gameID, playerID) from connection c, the action being
\* the endTurn event, is taken up by the room's synchronizer: it fetches the
\* state, validates, and either drops the update or computes the next state.
BeginUpdate(c, stateID, gameID, playerID, authentic) ==
    LET verdict == Verdict(db[gameID], stateID, playerID, authentic)
    IN \E failure \in FailurePoints(<<Fetch(gameID)>>) :
       /\ req[c] = Idle
       /\ RoomFree(gameID)
       /\ fault' = failure
       /\ IF failure # 0
          THEN /\ req' = req
               /\ last' = UpdateResult("StorageFailure", <<>>, stateID, gameID, playerID)
          ELSE IF verdict = "ok"
          THEN /\ req' = [req EXCEPT ![c] = [pc |-> "applied", stateID |-> stateID,
                                             gameID |-> gameID, playerID |-> playerID,
                                             authentic |-> authentic,
                                             member |-> IsMember(gameID, playerID),
                                             state |-> ApplyAction(db[gameID])]]
               /\ last' = Result("update", "admitted", <<>>)
          ELSE /\ req' = req
               /\ last' = UpdateResult(verdict, <<>>, stateID, gameID, playerID)
       /\ UNCHANGED <<db, meta, clientInfo, roomInfo, applied, created, issued,
                      apiSecret, header, faulty, txn,
                      props, shortcuts>>

\* The new state is written to the store; when the write fails, the update
\* ends there.
PersistUpdate(c) ==
    LET r == req[c].gameID
        calls == <<SetState(r, req[c].state)>>
    IN /\ req[c].pc = "applied"
       /\ \E failure \in FailurePoints(calls) :
            /\ Store(calls, failure)
            /\ IF failure = 0
               THEN /\ applied' = [applied EXCEPT ![r][req[c].stateID] = @ + 1]
                    /\ req' = [req EXCEPT ![c].pc = "persisted"]
                    /\ last' = Result("update", "persisted", <<>>)
               ELSE /\ applied' = applied
                    /\ req' = [req EXCEPT ![c] = Idle]
                    /\ last' = UpdateResult("StorageFailure", <<>>, req[c].stateID, r,
                                            req[c].playerID)
       /\ UNCHANGED <<clientInfo, roomInfo, created, issued, apiSecret, header, faulty, txn,
                      props, shortcuts>>

\* A synchronizer that broadcasts the computed state without waiting for the
\* store.
ReadyToBroadcast_BeforePersist(request) == request.pc \in {"applied", "persisted"}

\* The write of the new state has returned.
ReadyToBroadcast(request) == request.pc = "persisted"

\* A broadcast that goes to every registered connection, whatever its room.
Audience_Everyone(gameID) ==
    [d \in {x \in Conns : clientInfo[x] # NoInfo} |-> clientInfo[d].playerID]

\* The connections an update of the room is delivered to: the room's members.
Audience(gameID) == roomInfo[gameID]

\* Every connection registered to the room now gets its view of the new state.
BroadcastUpdate(c) ==
    LET r == req[c].gameID
    IN /\ req[c] # Idle
       /\ ReadyToBroadcast(req[c])
       /\ req' = [req EXCEPT ![c] = Idle]
       /\ last' = UpdateResult("ok", Emit(Audience(r), r, req[c].state),
                                req[c].stateID, r, req[c].playerID)
       /\ fault' = 0
       /\ UNCHANGED <<db, meta, clientInfo, roomInfo, applied, created, issued,
                      apiSecret, header, faulty, txn,
                      props, shortcuts>>

\* disconnect on connection c.
Disconnect(c) ==
    /\ Unregister(c)
    /\ last' = [Result("disconnect", "ok", <<>>)
                   EXCEPT !.args = [conn |-> c, from |-> RoomOf(c)]]
    /\ fault' = 0
    /\ UNCHANGED <<db, meta, req, applied, created, issued, apiSecret, header, faulty, txn,
                      props, shortcuts>>

\* ---------------------------------------------------------- Lobby Manager
Slots(numPlayers) == PlayerIDs(numPlayers)

VacantSlot == [name |-> Undefined, credentials |-> Undefined]

\* Metadata with the default two slots whatever numPlayers is.
NewMetadata_TwoSlots(gameName, numPlayers, setupData) ==
    [gameName |-> gameName,
     players |-> [id \in Slots(DefaultNumPlayers) |-> VacantSlot],
     setupData |-> setupData,
     nextRoomID |-> Undefined]

\* The metadata of a new room: one vacant slot for each player.
NewMetadata(gameName, numPlayers, setupData) ==
    [gameName |-> gameName,
     players |-> [id \in Slots(numPlayers) |-> VacantSlot],
     setupData |-> setupData,
     nextRoomID |-> Undefined]

\* lobbyConfig.uuid(): an identifier no stored room has.
IsFresh(gameID) ==
    gameID \notin created /\ db[gameID] = NoState /\ meta[gameID] = NoMeta

LobbyResult(op, status, body, args) ==
    [Result(op, status, <<>>) EXCEPT !.body = body, !.args = args]

\* The API-Secret headers requests carry: none on an unprotected lobby, as in
\* the tests.
HeadersSent == IF apiSecret = Undefined THEN {Undefined} ELSE HeaderArgs

\* A lobby that lets every request through.
Authorized_Always(sent) == TRUE

\* With an API secret configured, a request must carry it in its header.
Authorized(sent) == apiSecret = Undefined \/ sent = apiSecret

\* 403 from the gate: the request does not reach its handler.
Denied(op) ==
    /\ last' = LobbyResult(op, "Forbidden", Undefined, NoArgs)
    /\ fault' = 0
    /\ UNCHANGED <<db, meta, clientInfo, roomInfo, req, applied, created, issued>>

\* Every lobby route sits behind the gate.
Guarded(op, Handler) ==
    \E sent \in HeadersSent :
       /\ header' = sent
       /\ UNCHANGED <<apiSecret, faulty, txn, props, shortcuts>>
       /\ IF Authorized(sent) THEN Handler ELSE Denied(op)

\* The outcome of a request whose store calls went through, or did not.
Outcome(failure, op, status, body, args) ==
    IF failure = 0 THEN LobbyResult(op, status, body, args)
    ELSE LobbyResult(op, "StorageFailure", Undefined, args)

\* POST /games/{name}/create {numPlayers?, setupData?}
CreateGame(gameName, numPlayers, setupData) ==
    LET args == [gameName |-> gameName, numPlayers |-> numPlayers,
                 setupData |-> setupData]
    IN
    /\ Guarded("create",
        /\ UNCHANGED <<clientInfo, roomInfo, req, issued>>
        /\ IF gameName \notin Games
           THEN /\ last' = LobbyResult("create", "NotFound", Undefined, args)
                /\ Store(<<>>, 0)
                /\ UNCHANGED <<applied, created>>
           ELSE \E gameID \in RoomIDs :
                  LET calls == <<SetState(gameID,
                                     InitialState(NumPlayersOr(numPlayers), setupData)),
                                 SetMetadata(gameID,
                                     NewMetadata(gameName, NumPlayersOr(numPlayers),
                                                 setupData))>>
                  IN \E failure \in FailurePoints(calls) :
                       /\ IsFresh(gameID)
                       /\ Store(calls, failure)
                       /\ last' = Outcome(failure, "create", "ok", gameID, args)
                       /\ IF failure = 0
                          THEN /\ applied' = [applied EXCEPT ![gameID] = NoVersions]
                               /\ created' = created \cup {gameID}
                          ELSE UNCHANGED <<applied, created>>)

\* A required field of a request that was not sent, or sent empty.
Missing(field) == field \in {Undefined, Blank}

\* The handler looks the room up once the required fields are there.
Lookup(gameID, fields) ==
    IF \E i \in DOMAIN fields : Missing(fields[i]) THEN <<>> ELSE <<Fetch(gameID)>>

\* A lobby that takes every slot for free.
Occupied_Never(slot) == FALSE

\* A slot is occupied when it has a name.
Occupied(slot) == slot.name # Undefined

\* A room kept alive by any slot that still holds something.
HasPlayers_CountsCredentials(players) ==
    \E id \in DOMAIN players : players[id] # VacantSlot

\* The room still has a player: some slot has a name.
HasPlayers(players) == \E id \in DOMAIN players : Occupied(players[id])

\* A generator that hands out the same secret every time.
NextCredentials_SameEveryTime == AllSecrets[1]

\* generateCredentials(): the next secret, never one generated before.
NextCredentials == AllSecrets[issued + 1]

\* A handler that reports a failed check and carries on whenever the slot
\* exists.
Proceeds_AfterFailedCheck(verdict, gameID, playerID) ==
    \/ verdict = "ok"
    \/ /\ meta[gameID] # NoMeta
       /\ playerID \in DOMAIN meta[gameID].players

\* A failed check throws: the handler goes on only when every check passed.
Proceeds(verdict, gameID, playerID) == verdict = "ok"

\* Checks that take any playerID for a slot of the room.
JoinVerdict_NoSlotCheck(gameID, playerID, playerName) ==
    IF Missing(playerID) THEN "Forbidden"
    ELSE IF Missing(playerName) THEN "Forbidden"
    ELSE IF meta[gameID] = NoMeta THEN "NotFound"
    ELSE IF /\ playerID \in DOMAIN meta[gameID].players
            /\ Occupied(meta[gameID].players[playerID]) THEN "Conflict"
    ELSE "ok"

\* Checks that look the slot up before looking at playerName.
JoinVerdict_LookupFirst(gameID, playerID, playerName) ==
    IF Missing(playerID) THEN "Forbidden"
    ELSE IF meta[gameID] = NoMeta THEN "NotFound"
    ELSE IF playerID \notin DOMAIN meta[gameID].players THEN "NotFound"
    ELSE IF Missing(playerName) THEN "Forbidden"
    ELSE IF Occupied(meta[gameID].players[playerID]) THEN "Conflict"
    ELSE "ok"

\* The checks join makes, in order.
JoinVerdict(gameID, playerID, playerName) ==
    IF Missing(playerID) THEN "Forbidden"
    ELSE IF Missing(playerName) THEN "Forbidden"
    ELSE IF meta[gameID] = NoMeta THEN "NotFound"
    ELSE IF playerID \notin DOMAIN meta[gameID].players THEN "NotFound"
    ELSE IF Occupied(meta[gameID].players[playerID]) THEN "Conflict"
    ELSE "ok"

\* POST /games/{name}/{id}/join {playerID, playerName}
JoinRoom(gameID, playerID, playerName) ==
    LET args == [gameID |-> gameID, playerID |-> playerID, playerName |-> playerName]
        verdict == JoinVerdict(gameID, playerID, playerName)
        proceeds == Proceeds(verdict, gameID, playerID)
        joined == [meta[gameID] EXCEPT !.players[playerID] =
                         [name |-> playerName, credentials |-> NextCredentials]]
        calls == Lookup(gameID, <<playerID, playerName>>)
                    \o IF proceeds THEN <<SetMetadata(gameID, joined)>> ELSE <<>>
    IN
    /\ Guarded("join",
        \E failure \in FailurePoints(calls) :
          /\ UNCHANGED <<clientInfo, roomInfo, req, applied, created>>
          /\ proceeds => issued < Len(AllSecrets)
          /\ Store(calls, failure)
          /\ last' = Outcome(failure, "join", verdict,
                             IF proceeds THEN NextCredentials ELSE Undefined, args)
          /\ issued' = IF proceeds /\ failure = 0 THEN issued + 1 ELSE issued)

\* A check that accepts whatever credentials are sent.
CredentialsMatch_AnySent(slot, credentials) == credentials # Undefined

\* The credentials sent are the credentials stored in the slot.
CredentialsMatch(slot, credentials) == credentials = slot.credentials

\* Checks that report a playerID without a slot as bad credentials.
PlayerVerdict_NoSlotForbidden(gameID, playerID, credentials) ==
    IF Missing(playerID) THEN "Forbidden"
    ELSE IF meta[gameID] = NoMeta THEN "NotFound"
    ELSE IF \/ playerID \notin DOMAIN meta[gameID].players
            \/ ~CredentialsMatch(meta[gameID].players[playerID], credentials)
         THEN "Forbidden"
    ELSE "ok"

\* The checks rename, leave and playAgain make on the player, in order.
PlayerVerdict(gameID, playerID, credentials) ==
    IF Missing(playerID) THEN "Forbidden"
    ELSE IF meta[gameID] = NoMeta THEN "NotFound"
    ELSE IF playerID \notin DOMAIN meta[gameID].players THEN "NotFound"
    ELSE IF ~CredentialsMatch(meta[gameID].players[playerID], credentials)
         THEN "Forbidden"
    ELSE "ok"

\* Checks that let a rename without newName through.
RenameVerdict_NewNameOptional(gameID, playerID, credentials, newName) ==
    PlayerVerdict(gameID, playerID, credentials)

\* The checks rename makes, in order.
RenameVerdict(gameID, playerID, credentials, newName) ==
    IF Missing(playerID) THEN "Forbidden"
    ELSE IF Missing(newName) THEN "Forbidden"
    ELSE PlayerVerdict(gameID, playerID, credentials)

\* POST /games/{name}/{id}/rename {playerID, credentials, newName}
RenameRoom(gameID, playerID, credentials, newName) ==
    LET args == [gameID |-> gameID, playerID |-> playerID,
                 credentials |-> credentials, newName |-> newName]
        verdict == RenameVerdict(gameID, playerID, credentials, newName)
        renamed == [meta[gameID] EXCEPT !.players[playerID].name = newName]
        calls == Lookup(gameID, <<playerID, newName>>)
                    \o IF Proceeds(verdict, gameID, playerID)
                       THEN <<SetMetadata(gameID, renamed)>> ELSE <<>>
    IN
    /\ Guarded("rename",
        \E failure \in FailurePoints(calls) :
          /\ UNCHANGED <<clientInfo, roomInfo, req, applied, created, issued>>
          /\ Store(calls, failure)
          /\ last' = Outcome(failure, "rename", verdict, Undefined, args))

\* A leave that deletes the name and keeps the credentials.
AfterLeave_KeepsCredentials(players, playerID) ==
    [players EXCEPT ![playerID].name = Undefined]

\* The slots after the player of one of them has left.
AfterLeave(players, playerID) == [players EXCEPT ![playerID] = VacantSlot]

\* POST /games/{name}/{id}/leave {playerID, credentials}
LeaveRoom(gameID, playerID, credentials) ==
    LET verdict == PlayerVerdict(gameID, playerID, credentials)
        \* history: the other slots that held something when the player left
        others == IF verdict = "ok"
                  THEN {q \in DOMAIN meta[gameID].players \ {playerID} :
                           meta[gameID].players[q] # VacantSlot}
                  ELSE {}
        args == [gameID |-> gameID, playerID |-> playerID,
                 credentials |-> credentials, others |-> others]
        players == AfterLeave(meta[gameID].players, playerID)
        calls == Lookup(gameID, <<playerID>>)
                    \o IF ~Proceeds(verdict, gameID, playerID) THEN <<>>
                       ELSE IF HasPlayers(players)
                       THEN <<SetMetadata(gameID, [meta[gameID] EXCEPT !.players = players])>>
                       ELSE <<Wipe(gameID)>>
    IN
    /\ Guarded("leave",
        \E failure \in FailurePoints(calls) :
          /\ UNCHANGED <<clientInfo, roomInfo, req, applied, created, issued>>
          /\ Store(calls, failure)
          /\ last' = Outcome(failure, "leave", verdict, Undefined, args))

\* A lobby that never finds a next room recorded.
NextRoomOf_Forgotten(metadata) == Undefined

\* The room recorded as the next one to play in, if any.
NextRoomOf(metadata) == metadata.nextRoomID

\* POST /games/{name}/{id}/playAgain {playerID, credentials, numPlayers?}
PlayAgain(gameID, playerID, credentials, numPlayers) ==
    LET args == [gameID |-> gameID, playerID |-> playerID,
                 credentials |-> credentials, numPlayers |-> numPlayers]
        verdict == PlayerVerdict(gameID, playerID, credentials)
        lookup == Lookup(gameID, <<playerID>>)
    IN
    /\ Guarded("playAgain",
        /\ UNCHANGED <<clientInfo, roomInfo, req, issued>>
        /\ IF ~Proceeds(verdict, gameID, playerID)
           THEN \E failure \in FailurePoints(lookup) :
                  /\ Store(lookup, failure)
                  /\ last' = Outcome(failure, "playAgain", verdict, Undefined, args)
                  /\ UNCHANGED <<applied, created>>
           ELSE IF NextRoomOf(meta[gameID]) # Undefined
           THEN \E failure \in FailurePoints(lookup) :
                  /\ Store(lookup, failure)
                  /\ last' = Outcome(failure, "playAgain", verdict,
                                     NextRoomOf(meta[gameID]), args)
                  /\ UNCHANGED <<applied, created>>
           ELSE \E nextRoomID \in RoomIDs :
                  LET calls == lookup \o
                         <<SetState(nextRoomID,
                               InitialState(NumPlayersOr(numPlayers), Undefined)),
                           SetMetadata(nextRoomID,
                               NewMetadata(meta[gameID].gameName,
                                           NumPlayersOr(numPlayers), Undefined)),
                           SetMetadata(gameID,
                               [meta[gameID] EXCEPT !.nextRoomID = nextRoomID])>>
                  IN \E failure \in FailurePoints(calls) :
                       /\ IsFresh(nextRoomID)
                       /\ Store(calls, failure)
                       /\ last' = Outcome(failure, "playAgain", verdict, nextRoomID, args)
                       /\ IF failure = 0
                          THEN /\ applied' = [applied EXCEPT ![nextRoomID] = NoVersions]
                               /\ created' = created \cup {nextRoomID}
                          ELSE UNCHANGED <<applied, created>>)

\* An entry that hands out the stored slot as it is.
PlayerEntry_WholeSlot(id, slot) ==
    [id |-> id, name |-> slot.name, credentials |-> slot.credentials]

\* One entry of a room's players list: the id, and the name if there is one.
PlayerEntry(id, slot) ==
    IF Occupied(slot) THEN [id |-> id, name |-> slot.name] ELSE [id |-> id]

\* The players list of a room: one entry per slot, in ascending slot id.
RECURSIVE PlayersList(_, _)
PlayersList(players, i) ==
    IF i > Len(AllPlayOrder) THEN <<>>
    ELSE IF AllPlayOrder[i] \in DOMAIN players
         THEN <<PlayerEntry(AllPlayOrder[i], players[AllPlayOrder[i]])>>
                 \o PlayersList(players, i + 1)
         ELSE PlayersList(players, i + 1)

RoomEntry(gameID) ==
    [gameID |-> gameID, players |-> PlayersList(meta[gameID].players, 1)]

\* The rooms the store lists, in its order.
AllRoomIDs == <<"gameID", "other">>

RECURSIVE RoomList(_, _)
RoomList(gameName, i) ==
    IF i > Len(AllRoomIDs) THEN <<>>
    ELSE IF meta[AllRoomIDs[i]] # NoMeta /\ meta[AllRoomIDs[i]].gameName = gameName
         THEN <<RoomEntry(AllRoomIDs[i])>> \o RoomList(gameName, i + 1)
         ELSE RoomList(gameName, i + 1)

\* GET /games/{name}
ListRooms(gameName) ==
    LET calls == <<[call |-> "listGames"]>>
    IN
    /\ Guarded("listRooms",
        \E failure \in FailurePoints(calls) :
          /\ Store(calls, failure)
          /\ last' = Outcome(failure, "listRooms", "ok", RoomList(gameName, 1),
                             [gameName |-> gameName])
          /\ UNCHANGED <<clientInfo, roomInfo, req, applied, created, issued>>)

\* GET /games/{name}/{id}
GetRoom(gameID) ==
    LET calls == <<Fetch(gameID)>>
        args == [gameID |-> gameID]
    IN
    /\ Guarded("getRoom",
        \E failure \in FailurePoints(calls) :
          /\ Store(calls, failure)
          /\ last' = IF meta[gameID] = NoMeta
                     THEN Outcome(failure, "getRoom", "NotFound", Undefined, args)
                     ELSE Outcome(failure, "getRoom", "ok",
                                  [roomID |-> gameID,
                                   players |-> PlayersList(meta[gameID].players, 1)],
                                  args)
          /\ UNCHANGED <<clientInfo, roomInfo, req, applied, created, issued>>)

\* ------------------------------------------- concurrent lobby requests
\* A lobby handler is a fetch of the room's metadata, the checks, and a write
\* of the whole metadata as changed; between the two another request may run.
\* The steps below are those of join and playAgain on an unprotected lobby
\* whose store answers every call.

\* The response a caller has received.
Done(op, args, status, body) ==
    [pc |-> "done", op |-> op, args |-> args, result |-> status, body |-> body]

\* The request a caller has under way, with the metadata it fetched.
Fetched(op, args) ==
    [pc |-> "fetched", op |-> op, args |-> args, metadata |-> meta[args.gameID]]

\* The callers between fetch and write on this room.
Writing(gameID) ==
    {k \in Callers : txn[k].pc = "fetched" /\ txn[k].args.gameID = gameID}

\* A lobby that lets requests on the same room interleave.
MetadataFree_NoSerialization(gameID) == TRUE

\* The read-modify-write of a room's metadata is atomic: a request on a room
\* starts when no other is between its fetch and its write.
MetadataFree(gameID) == Writing(gameID) = {}

\* join, up to the checks.
BeginJoin(k, gameID, playerID, playerName) ==
    LET args == [gameID |-> gameID, playerID |-> playerID, playerName |-> playerName]
        verdict == JoinVerdict(gameID, playerID, playerName)
    IN /\ txn[k].pc # "fetched"
       /\ MetadataFree(gameID)
       /\ IF Proceeds(verdict, gameID, playerID)
          THEN /\ txn' = [txn EXCEPT ![k] = Fetched("join", args)]
               /\ last' = LobbyResult("join", "fetched", Undefined, args)
          ELSE /\ txn' = [txn EXCEPT ![k] = Done("join", args, verdict, Undefined)]
               /\ last' = LobbyResult("join", verdict, Undefined, args)
       /\ fault' = 0
       /\ UNCHANGED <<db, meta, clientInfo, roomInfo, req, applied, created, issued,
                      apiSecret, header, faulty,
                      props, shortcuts>>

\* join, the write: the fetched metadata with the slot filled in.
CommitJoin(k) ==
    LET args == txn[k].args
        joined == [txn[k].metadata EXCEPT !.players[args.playerID] =
                      [name |-> args.playerName, credentials |-> NextCredentials]]
    IN /\ txn[k].pc = "fetched"
       /\ txn[k].op = "join"
       /\ issued < Len(AllSecrets)
       /\ Store(<<SetMetadata(args.gameID, joined)>>, 0)
       /\ issued' = issued + 1
       /\ txn' = [txn EXCEPT ![k] = Done("join", args, "ok", NextCredentials)]
       /\ last' = LobbyResult("join", "ok", NextCredentials, args)
       /\ UNCHANGED <<clientInfo, roomInfo, req, applied, created,
                      apiSecret, header, faulty,
                      props, shortcuts>>

\* playAgain, up to the checks and the look for a next room already recorded.
BeginPlayAgain(k, gameID, playerID, credentials) ==
    LET args == [gameID |-> gameID, playerID |-> playerID, credentials |-> credentials]
        verdict == PlayerVerdict(gameID, playerID, credentials)
    IN /\ txn[k].pc # "fetched"
       /\ MetadataFree(gameID)
       /\ IF ~Proceeds(verdict, gameID, playerID)
          THEN /\ txn' = [txn EXCEPT ![k] = Done("playAgain", args, verdict, Undefined)]
               /\ last' = LobbyResult("playAgain", verdict, Undefined, args)
          ELSE IF NextRoomOf(meta[gameID]) # Undefined
          THEN /\ txn' = [txn EXCEPT ![k] =
                             Done("playAgain", args, verdict, NextRoomOf(meta[gameID]))]
               /\ last' = LobbyResult("playAgain", verdict, NextRoomOf(meta[gameID]), args)
          ELSE /\ txn' = [txn EXCEPT ![k] = Fetched("playAgain", args)]
               /\ last' = LobbyResult("playAgain", "fetched", Undefined, args)
       /\ fault' = 0
       /\ UNCHANGED <<db, meta, clientInfo, roomInfo, req, applied, created, issued,
                      apiSecret, header, faulty,
                      props, shortcuts>>

\* playAgain, the writes: the next room, and the fetched metadata with the next
\* room recorded.
CommitPlayAgain(k) ==
    LET args == txn[k].args
    IN /\ txn[k].pc = "fetched"
       /\ txn[k].op = "playAgain"
       /\ \E nextRoomID \in RoomIDs :
            /\ IsFresh(nextRoomID)
            /\ Store(<<SetState(nextRoomID,
                           InitialState(NumPlayersOr(<<>>), Undefined)),
                       SetMetadata(nextRoomID,
                           NewMetadata(txn[k].metadata.gameName,
                                       NumPlayersOr(<<>>), Undefined)),
                       SetMetadata(args.gameID,
                           [txn[k].metadata EXCEPT !.nextRoomID = nextRoomID])>>, 0)
            /\ applied' = [applied EXCEPT ![nextRoomID] = NoVersions]
            /\ created' = created \cup {nextRoomID}
            /\ txn' = [txn EXCEPT ![k] = Done("playAgain", args, "ok", nextRoomID)]
            /\ last' = LobbyResult("playAgain", "ok", nextRoomID, args)
       /\ UNCHANGED <<clientInfo, roomInfo, req, issued, apiSecret, header, faulty,
                      props, shortcuts>>

\* The store of the join tests: one room of two vacant slots.
InitRace ==
    /\ db = [r \in RoomIDs \cup {StoredRoomID} |->
                IF r = StoredRoomID
                THEN InitialState(DefaultNumPlayers, Undefined) ELSE NoState]
    /\ meta = [r \in RoomIDs \cup {StoredRoomID} |->
                IF r = StoredRoomID
                THEN NewMetadata("foo", DefaultNumPlayers, Undefined) ELSE NoMeta]
    /\ clientInfo = [c \in Conns |-> NoInfo]
    /\ roomInfo = [r \in RoomIDs |-> << >>]
    /\ req = [c \in Conns |-> Idle]
    /\ applied = [r \in RoomIDs \cup {StoredRoomID} |-> NoVersions]
    /\ created = {StoredRoomID}
    /\ issued = 0
    /\ last = Result("start", "ok", <<>>)
    /\ apiSecret = Undefined
    /\ header = Undefined
    /\ faulty = FALSE
    /\ fault = 0
    /\ txn = [k \in Callers |-> Idle]
    /\ Unmounted

\* The slots of the rooms the leave tests keep in the store: vacant, taken, or
\* holding credentials without a name.
StoredSlots ==
    {VacantSlot,
     [name |-> "alice", credentials |-> AllSecrets[1]],
     [name |-> "bob", credentials |-> AllSecrets[2]],
     [name |-> Undefined, credentials |-> AllSecrets[2]]}

\* The nextRoomID of the rooms the playAgain tests keep in the store.
StoredNextRoomIDs == {Undefined, "12345"}

\* A server started on a store that holds one two-player room.
InitStored ==
    /\ \E players \in [Slots(DefaultNumPlayers) -> StoredSlots],
          nextRoomID \in StoredNextRoomIDs :
          meta = [r \in RoomIDs |->
                    IF r = AllRoomIDs[1]
                    THEN [NewMetadata("foo", DefaultNumPlayers, Undefined)
                             EXCEPT !.players = players,
                                    !.nextRoomID = nextRoomID]
                    ELSE NoMeta]
    /\ db = [r \in RoomIDs |->
                IF r = AllRoomIDs[1]
                THEN InitialState(DefaultNumPlayers, Undefined) ELSE NoState]
    /\ clientInfo = [c \in Conns |-> NoInfo]
    /\ roomInfo = [r \in RoomIDs |-> << >>]
    /\ req = [c \in Conns |-> Idle]
    /\ applied = [r \in RoomIDs |-> NoVersions]
    /\ created = {AllRoomIDs[1]}
    /\ issued = Len(AllSecrets)
    /\ last = Result("start", "ok", <<>>)
    /\ apiSecret = Undefined
    /\ header = Undefined
    /\ faulty = FALSE
    /\ fault = 0
    /\ txn = [k \in Callers |-> Idle]
    /\ Unmounted

\* ------------------------------------------------------------ Debug panel

\* A name is the sequence of its characters; a character is a string of one.
FirstCharArgs == {"a", "b", "d", "e"}     \* first characters of the names tried
NameArgs == {<<c>> : c \in FirstCharArgs} \cup {<<c, "x">> : c \in FirstCharArgs}

\* The keys of an object in the order for..in visits them: sequences of
\* distinct names, up to a length.
KeysArgs(maxLen) ==
    {keys \in UNION {[1..n -> NameArgs] : n \in 0..maxLen} :
        \A i, j \in DOMAIN keys : keys[i] = keys[j] => i = j}

PropsArgs == {[moves |-> m, events |-> e] : m \in KeysArgs(MaxMoves), e \in KeysArgs(MaxEvents)}

\* The characters of the codes 97, 98, ... in order.
CharTable ==
    <<"a", "b", "c", "d", "e", "f", "g", "h", "i", "j", "k", "l", "m",
      "n", "o", "p", "q", "r", "s", "t", "u", "v", "w", "x", "y", "z">>

\* String.fromCharCode(code)
FromCharCode(code) == CharTable[code - CodeOfA + 1]

\* const taken = {d, l, i, t}: the keys the panel itself listens to.
Taken == {"d", "l", "i", "t"}

\* The keys of `events` after the two copying loops: the moves in their order,
\* then the events that are not the name of a move.
EventKeys(moves, events) ==
    moves \o SelectSeq(events, LAMBDA name : \A i \in DOMAIN moves : moves[i] # name)

\* The first loop from its i-th name on: each name gets its first character
\* until one is found in t; t is the table `taken` itself, written into.
RECURSIVE FirstChars(_, _, _, _)
FirstChars(names, i, t, assigned) ==
    IF i > Len(names)
    THEN [canUseFirstChar |-> TRUE, t |-> t, shortcuts |-> assigned]
    ELSE LET shortcut == names[i][1] IN
         IF shortcut \in t
         THEN [canUseFirstChar |-> FALSE, t |-> t, shortcuts |-> assigned]
         ELSE FirstChars(names, i + 1, t \cup {shortcut},
                         assigned @@ (names[i] :> shortcut))

\* while (t[shortcut]) next++: the first code from next on whose character is
\* not in t.
RECURSIVE NextFree(_, _)
NextFree(t, next) ==
    IF FromCharCode(next) \in t THEN NextFree(t, next + 1) ELSE next

\* The second loop from its i-th name on.
RECURSIVE Letters(_, _, _, _, _)
Letters(names, i, t, next, assigned) ==
    IF i > Len(names) THEN assigned
    ELSE LET code == NextFree(t, next)
             shortcut == FromCharCode(code)
         IN Letters(names, i + 1, t \cup {shortcut}, code,
                    assigned @@ (names[i] :> shortcut))

\* let t = taken in the second loop: the same table the first loop wrote
\* into, with every first character it marked before it gave up.
SecondTable(first) == first.t

\* What assignShortcuts leaves in this.shortcuts for these moves and events.
ShortcutsFor(moves, events) ==
    LET names == EventKeys(moves, events)
        first == FirstChars(names, 1, Taken, <<>>)
    IN IF first.canUseFirstChar THEN first.shortcuts
       ELSE Letters(names, 1, SecondTable(first), CodeOfA, <<>>)

\* constructor(props) { this.assignShortcuts() }
AssignShortcuts ==
    /\ props # NoProps
    /\ shortcuts = NoShortcuts
    /\ shortcuts' = [byName |-> ShortcutsFor(props.moves, props.events)]
    /\ UNCHANGED <<db, meta, clientInfo, roomInfo, req, applied, created, issued,
                   last, apiSecret, header, faulty, fault, txn, props>>

\* ------------------------------------------------------- specifications
NextSync ==
    \/ \E c \in Conns, r \in RoomIDs, p \in SyncPlayerArgs : Sync(c, r, p, <<>>)
    \/ \E c \in Conns : Disconnect(c)
    \/ \E c \in Conns, v \in StateIDArgs, r \in RoomIDs, p \in PlayerArgs,
          authentic \in BOOLEAN : BeginUpdate(c, v, r, p, authentic)
    \/ \E c \in Conns : PersistUpdate(c)
    \/ \E c \in Conns : BroadcastUpdate(c)

NextLobby ==
    \/ \E g \in GameNameArgs, n \in NumPlayersArgs, d \in SetupArgs :
          CreateGame(g, n, d)
    \/ \E c \in Conns, r \in RoomIDs, p \in SyncPlayerArgs,
          n \in NumPlayersArgs : Sync(c, r, p, n)
    \/ \E c \in Conns : Disconnect(c)

\* The lobby's room operations on the rooms it created.
NextRooms ==
    \/ \E g \in GameNameArgs, n \in SoloArgs : CreateGame(g, n, Undefined)
    \/ \E r \in RoomIDs, p \in JoinPlayerIDArgs, name \in PlayerNameArgs :
          JoinRoom(r, p, name)
    \/ \E r \in RoomIDs, p \in PlayerIDArgs, cr \in CredentialsArgs,
          name \in NewNameArgs : RenameRoom(r, p, cr, name)
    \/ \E r \in RoomIDs, p \in PlayerIDArgs, cr \in CredentialsArgs :
          LeaveRoom(r, p, cr)
    \/ \E r \in RoomIDs, p \in PlayerIDArgs, cr \in CredentialsArgs,
          n \in RoomSizeArgs : PlayAgain(r, p, cr, n)
    \/ \E g \in GameNameArgs : ListRooms(g)
    \/ \E r \in RoomIDs : GetRoom(r)

\* Leave, playAgain and getRoom on a room the store already holds.
NextStored ==
    \/ \E r \in RoomIDs, p \in PlayerIDArgs, cr \in CredentialsArgs :
          LeaveRoom(r, p, cr)
    \/ \E r \in RoomIDs, p \in PlayerIDArgs, cr \in CredentialsArgs,
          n \in RoomSizeArgs : PlayAgain(r, p, cr, n)
    \/ \E r \in RoomIDs : GetRoom(r)

\* Lobby and socket server side by side on the same rooms: one player creates,
\* joins, leaves and asks for a next room while a connection syncs and updates.
NextServer ==
    \/ \E g \in Games : CreateGame(g, <<1>>, Undefined)
    \/ \E r \in RoomIDs : JoinRoom(r, "0", "alice")
    \/ \E r \in RoomIDs, cr \in Secrets : LeaveRoom(r, "0", cr)
    \/ \E r \in RoomIDs, cr \in Secrets : PlayAgain(r, "0", cr, <<1>>)
    \/ \E c \in ServerConns, r \in RoomIDs : Sync(c, r, "0", <<>>)
    \/ \E c \in ServerConns, v \in StateIDArgs, r \in RoomIDs :
          BeginUpdate(c, v, r, "0", TRUE)
    \/ \E c \in ServerConns : PersistUpdate(c)
    \/ \E c \in ServerConns : BroadcastUpdate(c)

\* One player's lobby requests, with or without the API-Secret header.
NextProtected ==
    \/ \E g \in GameNameArgs : CreateGame(g, <<1>>, Undefined)
    \/ \E r \in RoomIDs : JoinRoom(r, "0", "alice")
    \/ \E r \in RoomIDs, cr \in Secrets : RenameRoom(r, "0", cr, "ali")
    \/ \E r \in RoomIDs, cr \in Secrets : LeaveRoom(r, "0", cr)
    \/ \E r \in RoomIDs, cr \in Secrets : PlayAgain(r, "0", cr, <<1>>)
    \/ \E g \in Games : ListRooms(g)
    \/ \E r \in RoomIDs : GetRoom(r)

\* The lobby of one player, and a connection syncing and updating the first
\* room, on a store whose calls can fail.
NextFailing ==
    \/ \E g \in Games : CreateGame(g, <<1>>, Undefined)
    \/ \E r \in RoomIDs : JoinRoom(r, "0", "alice")
    \/ \E r \in RoomIDs, cr \in Secrets : RenameRoom(r, "0", cr, "ali")
    \/ \E r \in RoomIDs, cr \in Secrets : LeaveRoom(r, "0", cr)
    \/ \E r \in RoomIDs, cr \in Secrets : PlayAgain(r, "0", cr, <<1>>)
    \/ \E r \in RoomIDs : GetRoom(r)
    \/ \E c \in ServerConns : Sync(c, AllRoomIDs[1], "0", <<>>)
    \/ \E c \in ServerConns, v \in StateIDArgs :
          BeginUpdate(c, v, AllRoomIDs[1], "0", TRUE)
    \/ \E c \in ServerConns : PersistUpdate(c)
    \/ \E c \in ServerConns : BroadcastUpdate(c)

\* Two callers joining the stored room and asking for its next room, their
\* requests interleaving.
NextRace ==
    \/ \E k \in Callers, p \in SyncPlayerArgs : BeginJoin(k, StoredRoomID, p, k)
    \/ \E k \in Callers : CommitJoin(k)
    \/ \E k \in Callers, p \in SyncPlayerArgs, cr \in Secrets :
          BeginPlayAgain(k, StoredRoomID, p, cr)
    \/ \E k \in Callers : CommitPlayAgain(k)

\* The player operations on one stored room, one slot of which is taken for
\* good: every join that succeeds is a join of its other slot.
NextSlots ==
    \/ \E p \in JoinPlayerIDArgs, name \in PlayerNameArgs :
          JoinRoom(AllRoomIDs[1], p, name)
    \/ \E p \in PlayerIDArgs, cr \in CredentialsArgs, name \in NewNameArgs :
          RenameRoom(AllRoomIDs[1], p, cr, name)
    \/ \E p \in PlayerIDArgs, cr \in CredentialsArgs :
          LeaveRoom(AllRoomIDs[1], p, cr)
    \/ \E p \in PlayerIDArgs, cr \in CredentialsArgs, n \in RoomSizeArgs :
          PlayAgain(AllRoomIDs[1], p, cr, n)

\* The Debug panel's constructor.
NextShortcuts == AssignShortcuts

Next == NextSync \/ NextLobby \/ NextRooms \/ NextStored \/ NextServer
           \/ NextProtected \/ NextFailing \/ NextRace \/ NextSlots
           \/ NextShortcuts

\* The whole server.
Spec == Init /\ [][Next]_vars

\* The socket server alone: sync (numPlayers omitted, as the clients of the
\* update tests send it), update and disconnect.
SpecSync == Init /\ [][NextSync]_vars

\* The lobby API, with connections syncing to the rooms it creates.
SpecLobby == Init /\ [][NextLobby]_vars

\* The lobby API's room operations: create (rooms for one player), join,
\* rename, leave, playAgain (a next room for one player, or for two when
\* numPlayers is omitted) and the two queries.
SpecRooms == Init /\ [][NextRooms]_vars

\* Leave, playAgain and getRoom on a stored room, as the leave and playAgain
\* tests set it up.
SpecStored == InitStored /\ [][NextStored]_vars

\* The lobby API and the socket server together.
SpecServer == Init /\ [][NextServer]_vars

\* A lobby started with or without an API secret.
InitProtected == \E secret \in SecretConfigs : Started(secret, FALSE)

\* The lobby API behind its gate.
SpecProtected == InitProtected /\ [][NextProtected]_vars

\* Concurrent lobby requests on one stored room.
SpecRace == InitRace /\ [][NextRace]_vars

\* A server whose store can fail any call.
InitFailing == Started(Undefined, TRUE)

\* Lobby API and socket server on a failing store.
SpecFailing == InitFailing /\ [][NextFailing]_vars

\* The credentials of the player the store already holds in slot 0.
SeatedCredentials == "SECRET"

\* A store that holds one room of two slots: bob sits in slot 0 with
\* credentials no request of the model carries, slot 1 is vacant and no
\* credentials have been generated yet.
InitSlots ==
    /\ db = [r \in RoomIDs |->
                IF r = AllRoomIDs[1]
                THEN InitialState(DefaultNumPlayers, Undefined) ELSE NoState]
    /\ meta = [r \in RoomIDs |->
                IF r = AllRoomIDs[1]
                THEN [NewMetadata("foo", DefaultNumPlayers, Undefined)
                         EXCEPT !.players["0"] =
                            [name |-> "bob", credentials |-> SeatedCredentials]]
                ELSE NoMeta]
    /\ clientInfo = [c \in Conns |-> NoInfo]
    /\ roomInfo = [r \in RoomIDs |-> << >>]
    /\ req = [c \in Conns |-> Idle]
    /\ applied = [r \in RoomIDs |-> NoVersions]
    /\ created = {AllRoomIDs[1]}
    /\ issued = 0
    /\ last = Result("start", "ok", <<>>)
    /\ apiSecret = Undefined
    /\ header = Undefined
    /\ faulty = FALSE
    /\ fault = 0
    /\ txn = [k \in Callers |-> Idle]
    /\ Unmounted

SpecSlots == InitSlots /\ [][NextSlots]_vars

\* A Debug panel about to be constructed with some moves and events.
InitShortcuts ==
    /\ ServerStarted(Undefined, FALSE)
    /\ props \in PropsArgs
    /\ shortcuts = NoShortcuts

SpecShortcuts == InitShortcuts /\ [][NextShortcuts]_vars

\* ------------------------------------------------------------- properties
RECURSIVE SumTo(_, _)
SumTo(f, n) == IF n < 0 THEN 0 ELSE f[n] + SumTo(f, n - 1)

\* The number of updates the room has accepted since its state was created.
Accepted(gameID) == SumTo(applied[gameID], MaxVersion)

Rejections == {"no game", "unauthorized", "stale", "illegal"}

\* This step is the synchronizer dropping an update.
Dropped == last'.op = "update" /\ last'.result \in Rejections

\* This step is the synchronizer admitting the update of connection c.
Admitted(c) == req[c] = Idle /\ req'[c] # Idle

\* This step persists the admitted update of connection c.
Persisted(c) == req[c].pc = "applied" /\ req'[c].pc = "persisted"

\* This step broadcasts the persisted update of connection c.
Broadcast(c) == req[c].pc = "persisted" /\ req'[c] = Idle

\* Nothing is stored, nothing is admitted and nothing is sent in this step.
NoEffect ==
    /\ db' = db /\ meta' = meta /\ req' = req /\ applied' = applied
    /\ created' = created /\ issued' = issued
    /\ clientInfo' = clientInfo /\ roomInfo' = roomInfo
    /\ last'.msgs = <<>>

\* A stored state changes only when an admitted update is persisted, and
\* 'update' messages are sent only when a persisted update is broadcast.
OnlyAdmittedTakeEffect ==
    /\ \A r \in RoomIDs : db[r] # NoState /\ db'[r] # db[r]
          => \E c \in Conns : Persisted(c) /\ req[c].gameID = r
    /\ (\E i \in 1..Len(last'.msgs) : last'.msgs[i].type = "update")
          => \E c \in Conns : Broadcast(c)

\* C1: the stored version of every room equals the number of updates accepted
\* since its state was created: it starts at 0, goes up by exactly 1 when an
\* update is accepted (persisted) and only then, and a rejected update leaves it
\* unchanged.
C1_VersionCountsAccepted ==
    [][/\ \A r \in RoomIDs : db'[r] # NoState => db'[r].stateID = Accepted(r)'
       /\ \A r \in RoomIDs : db[r] = NoState /\ db'[r] # NoState
                                    => db'[r].stateID = 0
       /\ \A r \in RoomIDs : db[r] # NoState =>
             /\ db'[r] # NoState
             /\ db'[r].stateID \in {db[r].stateID, db[r].stateID + 1}
             /\ db'[r].stateID = db[r].stateID + 1
                  <=> \E c \in Conns : Persisted(c) /\ req[c].gameID = r
       /\ Dropped => db' = db]_vars

\* C1 witness: a room at version MaxVersion after as many accepted updates,
\* right after one more update for it was rejected.
C1_Witness ==
    \E r \in RoomIDs :
        /\ db[r] # NoState
        /\ db[r].stateID = MaxVersion
        /\ Accepted(r) = MaxVersion
        /\ last.op = "update"
        /\ last.result \in Rejections
        /\ last.args.gameID = r

\* C2: an update whose stateID differs from the room's stored version is never
\* taken up: it changes no stored state and sends no message, also when the
\* room exists, the acting player is a member and authentication succeeds.
C2_StaleUpdateHasNoEffect ==
    [][/\ \A c \in Conns : Admitted(c) /\ db[req'[c].gameID] # NoState
             => req'[c].stateID = db[req'[c].gameID].stateID
       /\ (last'.op = "update" /\ last'.result = "stale") => NoEffect
       /\ OnlyAdmittedTakeEffect]_vars

\* C2 witness: an authenticated update by the current player, who is a member
\* of the room, was dropped because its stateID is not the stored one.
C2_Witness ==
    /\ last.op = "update"
    /\ last.result = "stale"
    /\ db[last.args.gameID] # NoState
    /\ last.args.stateID # db[last.args.gameID].stateID
    /\ last.args.playerID = db[last.args.gameID].currentPlayer
    /\ IsMember(last.args.gameID, last.args.playerID)

\* C3: of the updates for one room that carry the same stateID at most one is
\* accepted, the room has at most one update in progress, and an authenticated
\* update whose stateID another update has already been accepted against is
\* dropped as stale.
C3_OneUpdatePerVersion ==
    [][/\ \A r \in RoomIDs : Cardinality(InFlight(r)') <= 1
       /\ \A r \in RoomIDs, v \in 0..MaxVersion : applied'[r][v] <= 1
       /\ \A c \in Conns : Admitted(c)
             => /\ InFlight(req'[c].gameID) = {}
                /\ applied[req'[c].gameID][req'[c].stateID] = 0
       /\ (Dropped /\ applied[last'.args.gameID][last'.args.stateID] >= 1)
             => last'.result \in {"stale", "unauthorized"} /\ NoEffect]_vars

\* C3 witness: an update by the player whose turn it was at version v is dropped
\* as stale after another update carrying the same stateID v was accepted.
C3_Witness ==
    /\ last.op = "update"
    /\ last.result = "stale"
    /\ applied[last.args.gameID][last.args.stateID] = 1
    /\ db[last.args.gameID].stateID = last.args.stateID + 1
    /\ last.args.playerID = PlayOrder(db[last.args.gameID].numPlayers)[last.args.stateID + 1]

\* C4: the broadcast of an accepted update sends exactly one 'update' message to
\* each connection registered to the room and none to any other connection, and
\* each message carries the new state as viewed by its receiver's own playerID.
C4_OneViewPerMember ==
    [][\A c \in Conns : Broadcast(c) =>
          LET g == req[c].gameID
              m == last'.msgs
          IN /\ \A d \in Conns :
                   Cardinality({i \in 1..Len(m) : m[i].to = d})
                     = IF clientInfo[d] # NoInfo /\ clientInfo[d].gameID = g
                       THEN 1 ELSE 0
             /\ \A i \in 1..Len(m) :
                   /\ m[i].type = "update"
                   /\ m[i].gameID = g
                   /\ m[i].state.stateID = db[g].stateID
                   /\ m[i].state.currentPlayer = db[g].currentPlayer
                   /\ m[i].state.G.G = db[g].G
                   /\ clientInfo[m[i].to] # NoInfo
                   /\ m[i].state.G.player = clientInfo[m[i].to].playerID]_vars

\* C4 witness: an accepted update was broadcast to two connections of the room,
\* registered as players '0' and '1', each with its own view.
C4_Witness ==
    /\ last.op = "update"
    /\ last.result = "ok"
    /\ Len(last.msgs) = 2
    /\ {last.msgs[1].state.G.player, last.msgs[2].state.G.player} = {"0", "1"}
    /\ last.msgs[1].to # last.msgs[2].to

\* C5 (as claimed): an update whose acting playerID is the identity of no
\* connection registered to the room is never persisted nor broadcast.
C5_NonMemberNeverApplied ==
    [][\A c \in Conns : Persisted(c) \/ Broadcast(c) => req[c].member]_vars

\* C5 (amended): an update for a room without stored state, or by a playerID the
\* engine does not let act in the stored state, is dropped without effect: no
\* message, no state created, nothing stored changes; a state is only ever
\* created by sync or by the lobby.
C5_UnknownRoomOrIllegalPlayerDropped ==
    [][/\ \A c \in Conns : Admitted(c)
             => /\ db[req'[c].gameID] # NoState
                /\ req'[c].playerID = db[req'[c].gameID].currentPlayer
       /\ (last'.op = "update" /\ last'.result \in {"no game", "illegal"}) => NoEffect
       /\ \A r \in RoomIDs : db[r] = NoState /\ db'[r] # NoState
             => last'.op \in {"sync", "create"}
       /\ OnlyAdmittedTakeEffect]_vars

\* C5 witness: an update by playerID '100', carrying the stored stateID of an
\* existing room, was dropped.
C5_Witness ==
    /\ last.op = "update"
    /\ last.result = "illegal"
    /\ last.args.playerID = BadPlayer
    /\ db[last.args.gameID].stateID = last.args.stateID

\* C6: an update the authenticator rejects is never taken up: nothing stored
\* changes and no message is sent, also when room, stateID and playerID are valid.
C6_UnauthenticNeverApplied ==
    [][/\ \A c \in Conns : Admitted(c) => req'[c].authentic
       /\ (last'.op = "update" /\ last'.result = "unauthorized") => NoEffect
       /\ OnlyAdmittedTakeEffect]_vars

\* C6 witness: an update by the current player of an existing room, carrying
\* the stored stateID, was dropped because the authenticator rejected it.
C6_Witness ==
    /\ last.op = "update"
    /\ last.result = "unauthorized"
    /\ db[last.args.gameID] # NoState
    /\ db[last.args.gameID].stateID = last.args.stateID
    /\ db[last.args.gameID].currentPlayer = last.args.playerID

\* numPlayers as the request states it: the number given, 2 when none is.
Requested(numPlayers) == IF numPlayers = <<>> THEN 2 ELSE numPlayers[1]

\* C7: sync on a room without stored state creates and stores the initial state
\* (numPlayers from the request, 2 when omitted, version 0); sync on a room with
\* a stored state stores nothing; either way exactly one message, the caller's
\* view of the stored state, is sent, to the caller.
C7_SyncCreatesOnceAndReplies ==
    [][last'.op = "sync" =>
          LET m == last'.msgs[1]
              g == m.gameID
              c == last'.args.conn
          IN /\ Len(last'.msgs) = 1
             /\ m.type = "sync" /\ m.to = c
             /\ clientInfo'[c] # NoInfo /\ clientInfo'[c].gameID = g
             /\ db'[g] # NoState
             /\ db[g] = NoState =>
                   /\ db'[g].numPlayers = Requested(last'.args.numPlayers)
                   /\ db'[g].stateID = 0
                   /\ db'[g].currentPlayer = "0"
             /\ db[g] # NoState => db'[g] = db[g]
             /\ \A r \in RoomIDs \ {g} : db'[r] = db[r]
             /\ meta' = meta /\ req' = req /\ applied' = applied
             /\ m.state.stateID = db'[g].stateID
             /\ m.state.numPlayers = db'[g].numPlayers
             /\ m.state.currentPlayer = db'[g].currentPlayer
             /\ m.state.G.G = db'[g].G
             /\ m.state.G.player = clientInfo'[c].playerID]_vars

\* C7 witness: a sync that asked for 3 players on a room the lobby had created
\* for 2 players with setup data was answered with the stored state.
C7_Witness ==
    /\ last.op = "sync"
    /\ last.args.numPlayers = <<3>>
    /\ meta[last.msgs[1].gameID] # NoMeta
    /\ last.msgs[1].state.numPlayers = 2
    /\ last.msgs[1].state.G.G = "colors"

\* C8: a connection is in the member set of a room exactly when its recorded
\* identity names that room, with the same playerID; so a connection belongs to
\* at most one room, and a sync to a second room takes it out of the first.
C8_RegistryConsistent ==
    \A c \in Conns, r \in RoomIDs :
        /\ c \in DOMAIN roomInfo[r] <=> (clientInfo[c] # NoInfo /\ clientInfo[c].gameID = r)
        /\ c \in DOMAIN roomInfo[r] => roomInfo[r][c] = clientInfo[c].playerID

\* C8 witness: a connection registered to one room has just synced to another,
\* and the room it left still has its other member.
C8_Witness ==
    /\ last.op = "sync"
    /\ last.args.from \in RoomIDs \ {last.msgs[1].gameID}
    /\ clientInfo[last.args.conn].gameID = last.msgs[1].gameID
    /\ DOMAIN roomInfo[last.args.from] = Conns \ {last.args.conn}

\* C9: disconnect removes the connection's identity and its membership and
\* nothing else: other connections' identities and memberships, every stored
\* state and version are unchanged and no message is sent; for a connection
\* without identity nothing changes at all.
C9_DisconnectRemovesOnlyCaller ==
    [][last'.op = "disconnect" =>
          LET c == last'.args.conn
          IN /\ clientInfo'[c] = NoInfo
             /\ \A d \in Conns \ {c} : clientInfo'[d] = clientInfo[d]
             /\ \A r \in RoomIDs : roomInfo'[r] = Without(roomInfo[r], c)
             /\ clientInfo[c] = NoInfo => clientInfo' = clientInfo /\ roomInfo' = roomInfo
             /\ db' = db /\ meta' = meta /\ req' = req /\ applied' = applied
             /\ last'.msgs = <<>>]_vars

\* C9 witness: a registered connection has disconnected and the other member of
\* its room is still registered there.
C9_Witness ==
    /\ last.op = "disconnect"
    /\ last.args.from \in RoomIDs
    /\ clientInfo[last.args.conn] = NoInfo
    /\ \E d \in Conns \ {last.args.conn} :
          /\ d \in DOMAIN roomInfo[last.args.from]
          /\ clientInfo[d] # NoInfo
          /\ clientInfo[d].gameID = last.args.from

\* C10: a successful createGame stores, under one identifier that had neither
\* state nor metadata, the initial state with the requested numPlayers (2 when
\* omitted) and the setup payload, and metadata with exactly the slots
\* 0..numPlayers-1, all without name and credentials; it returns the identifier
\* and touches no other room.
C10_CreateGameStoresStateAndSlots ==
    [][(last'.op = "create" /\ last'.result = "ok") =>
          LET g == last'.body
              n == Requested(last'.args.numPlayers)
          IN /\ g \in RoomIDs
             /\ db[g] = NoState /\ meta[g] = NoMeta
             /\ db'[g] # NoState /\ meta'[g] # NoMeta
             /\ db'[g].numPlayers = n
             /\ db'[g].stateID = 0
             /\ db'[g].G = (IF last'.args.setupData = Undefined
                            THEN "empty" ELSE last'.args.setupData)
             /\ meta'[g].setupData = last'.args.setupData
             /\ DOMAIN meta'[g].players = {AllPlayOrder[i] : i \in 1..n}
             /\ \A id \in DOMAIN meta'[g].players :
                   /\ meta'[g].players[id].name = Undefined
                   /\ meta'[g].players[id].credentials = Undefined
             /\ \A r \in RoomIDs \ {g} : db'[r] = db[r] /\ meta'[r] = meta[r]
             /\ last'.msgs = <<>>]_vars

\* C10 witness: a game for 3 players with setup data has been created.
C10_Witness ==
    /\ last.op = "create"
    /\ last.result = "ok"
    /\ last.args.numPlayers = <<3>>
    /\ last.args.setupData = "colors"
    /\ Cardinality(DOMAIN meta[last.body].players) = 3
    /\ db[last.body].numPlayers = 3

\* ------------------------------------------------- properties of the lobby
\* The secrets generateCredentials() has handed out so far.
IssuedSecrets == {AllSecrets[i] : i \in 1..issued}

\* Every slot of every room but slot playerID of room gameID is as it was, and
\* no room appeared or disappeared.
OtherSlotsUnchanged(gameID, playerID) ==
    /\ \A r \in RoomIDs \ {gameID} : meta'[r] = meta[r]
    /\ meta'[gameID] # NoMeta
    /\ DOMAIN meta'[gameID].players = DOMAIN meta[gameID].players
    /\ \A q \in DOMAIN meta[gameID].players \ {playerID} :
          meta'[gameID].players[q] = meta[gameID].players[q]

\* The request names an existing slot of an existing room.
NamesSlot(gameID, playerID) ==
    /\ meta[gameID] # NoMeta
    /\ playerID \in DOMAIN meta[gameID].players

\* The slot the request names has a name stored.
HasName(gameID, playerID) == meta[gameID].players[playerID].name # Undefined

\* C11: a join naming a vacant slot of an existing room, with playerID and
\* playerName both given, succeeds: the stored slot then has that name and the
\* secret just generated (one never handed out before), every other slot and
\* room is unchanged, the secret is the response body, and no message goes to
\* any connection.
C11_JoinFillsVacantSlot ==
    [][(/\ last'.op = "join"
        /\ ~Missing(last'.args.playerID)
        /\ ~Missing(last'.args.playerName)
        /\ NamesSlot(last'.args.gameID, last'.args.playerID)
        /\ ~HasName(last'.args.gameID, last'.args.playerID))
       => LET g == last'.args.gameID
              p == last'.args.playerID
          IN /\ last'.result = "ok"
             /\ last'.body \in Secrets \ IssuedSecrets
             /\ meta'[g].players[p] =
                   [name |-> last'.args.playerName, credentials |-> last'.body]
             /\ OtherSlotsUnchanged(g, p)
             /\ meta'[g].gameName = meta[g].gameName
             /\ meta'[g].nextRoomID = meta[g].nextRoomID
             /\ db' = db
             /\ last'.msgs = <<>>]_vars

\* C11 witness: a player has just joined a room whose other slot was already
\* taken by a player holding an earlier secret.
C11_Witness ==
    /\ last.op = "join" /\ last.result = "ok"
    /\ last.body = AllSecrets[2]
    /\ \E q \in DOMAIN meta[last.args.gameID].players \ {last.args.playerID} :
          meta[last.args.gameID].players[q].credentials = AllSecrets[1]

\* Nothing the lobby stores or generates changes in this step.
NothingWritten ==
    /\ db' = db /\ meta' = meta /\ created' = created /\ issued' = issued

\* C12: a join naming a slot that has a name fails, with Conflict when playerName
\* is given (the occupant's own name included) and with Forbidden when it is
\* missing or blank; the slot keeps its name and credentials, nothing is
\* written and no secret is returned.
C12_JoinOccupiedSlotFails ==
    [][(/\ last'.op = "join"
        /\ NamesSlot(last'.args.gameID, last'.args.playerID)
        /\ HasName(last'.args.gameID, last'.args.playerID))
       => /\ last'.result = (IF Missing(last'.args.playerName)
                             THEN "Forbidden" ELSE "Conflict")
          /\ last'.body = Undefined
          /\ NothingWritten]_vars

\* C12 witness: a join under the occupant's own name has just been refused.
C12_Witness ==
    /\ last.op = "join" /\ last.result = "Conflict"
    /\ meta[last.args.gameID].players[last.args.playerID].name = last.args.playerName
    /\ meta[last.args.gameID].players[last.args.playerID].credentials \in Secrets

PlayerOps == {"rename", "leave", "playAgain"}

\* C13: a rename, leave or playAgain naming an existing slot of an existing room
\* with credentials other than the ones stored in that slot is answered
\* Forbidden, also when they are the valid credentials of another slot, and
\* then no metadata is written, no room is wiped and no room is created.
C13_WrongCredentialsForbidden ==
    [][(/\ last'.op \in PlayerOps
        /\ NamesSlot(last'.args.gameID, last'.args.playerID)
        /\ last'.args.credentials #
              meta[last'.args.gameID].players[last'.args.playerID].credentials)
       => /\ last'.result = "Forbidden"
          /\ last'.body = Undefined
          /\ NothingWritten]_vars

\* C13 witness: a leave sent with the credentials of the other player of the
\* room has just been refused.
C13_Witness ==
    /\ last.op = "leave" /\ last.result = "Forbidden"
    /\ NamesSlot(last.args.gameID, last.args.playerID)
    /\ meta[last.args.gameID].players[last.args.playerID].credentials \in Secrets
    /\ \E q \in DOMAIN meta[last.args.gameID].players \ {last.args.playerID} :
          meta[last.args.gameID].players[q].credentials = last.args.credentials

\* C14: a successful leave after which no slot of the room has a name deletes
\* the room's state and metadata, and a getRoom on a room without metadata is
\* answered NotFound; when another slot still has a name the room's state is
\* kept and its metadata is written back with the leaver's slot cleared. Only
\* names count: a slot holding credentials without a name does not keep the
\* room.
C14_LastLeaveWipesRoom ==
    [][/\ (last'.op = "leave" /\ last'.result = "ok")
          => LET g == last'.args.gameID
                 p == last'.args.playerID
             IN /\ \A r \in RoomIDs \ {g} : meta'[r] = meta[r] /\ db'[r] = db[r]
                /\ IF \E q \in DOMAIN meta[g].players \ {p} :
                         meta[g].players[q].name # Undefined
                   THEN /\ db'[g] = db[g] /\ db'[g] # NoState
                        /\ meta'[g] = [meta[g] EXCEPT !.players[p] = VacantSlot]
                   ELSE /\ db'[g] = NoState
                        /\ meta'[g] = NoMeta
       /\ (last'.op = "getRoom" /\ meta[last'.args.gameID] = NoMeta)
          => last'.result = "NotFound"]_vars

\* C14 witness: the last named player has left a room whose other slot still
\* held credentials, and the room is gone.
C14_Witness ==
    /\ last.op = "leave" /\ last.result = "ok"
    /\ last.args.others # {}
    /\ meta[last.args.gameID] = NoMeta
    /\ db[last.args.gameID] = NoState

\* C15: a successful leave that keeps the room stores the leaver's slot without
\* name and without credentials, so that a join naming it would succeed again,
\* and stores every other slot, and every other room, exactly as it was.
C15_LeaveVacatesOnlyOwnSlot ==
    [][\A g \in RoomIDs, p \in PlayerIDArgs :
          (/\ last'.op = "leave" /\ last'.result = "ok"
           /\ last'.args.gameID = g /\ last'.args.playerID = p
           /\ meta'[g] # NoMeta)
          => /\ meta'[g].players[p].name = Undefined
             /\ meta'[g].players[p].credentials = Undefined
             /\ JoinVerdict(g, p, "alice")' = "ok"
             /\ OtherSlotsUnchanged(g, p)
             /\ meta'[g].gameName = meta[g].gameName
             /\ meta'[g].nextRoomID = meta[g].nextRoomID
             /\ db' = db]_vars

\* C15 witness: one of two joined players has left; the slot is vacant and the
\* other player still holds name and credentials.
C15_Witness ==
    /\ last.op = "leave" /\ last.result = "ok"
    /\ last.args.credentials \in Secrets
    /\ meta[last.args.gameID] # NoMeta
    /\ meta[last.args.gameID].players[last.args.playerID] = VacantSlot
    /\ \E q \in DOMAIN meta[last.args.gameID].players :
          /\ meta[last.args.gameID].players[q].name = "alice"
          /\ meta[last.args.gameID].players[q].credentials \in Secrets

\* C16: an authorized playAgain on a room without a recorded next room creates
\* exactly one room, under an identifier never used, as create does (state at
\* version 0 for the requested numPlayers, one vacant slot per player, the same
\* gameName, no next room), records its id as the room's nextRoomID and returns
\* it; an authorized playAgain on a room with a recorded next room returns that
\* id, whoever asks and whatever numPlayers is sent, and writes nothing. A
\* recorded next room is never replaced.
C16_PlayAgainIdempotent ==
    [][/\ (last'.op = "playAgain" /\ last'.result = "ok")
          => LET g == last'.args.gameID
                 id == last'.body
             IN IF meta[g].nextRoomID # Undefined
                THEN id = meta[g].nextRoomID /\ NothingWritten
                ELSE /\ id \in RoomIDs \ created
                     /\ meta[id] = NoMeta /\ db[id] = NoState
                     /\ created' = created \cup {id}
                     /\ db'[id] # NoState /\ db'[id].stateID = 0
                     /\ last'.args.numPlayers # <<>>
                           => db'[id].numPlayers = last'.args.numPlayers[1]
                     /\ meta'[id] # NoMeta
                     /\ DOMAIN meta'[id].players =
                           {AllPlayOrder[i] : i \in 1..db'[id].numPlayers}
                     /\ \A q \in DOMAIN meta'[id].players :
                           meta'[id].players[q] = VacantSlot
                     /\ meta'[id].gameName = meta[g].gameName
                     /\ meta'[id].nextRoomID = Undefined
                     /\ meta'[g] = [meta[g] EXCEPT !.nextRoomID = id]
                     /\ \A r \in RoomIDs \ {g, id} :
                           meta'[r] = meta[r] /\ db'[r] = db[r]
                     /\ db'[g] = db[g]
       /\ \A r \in RoomIDs :
             (meta[r] # NoMeta /\ meta[r].nextRoomID # Undefined /\ meta'[r] # NoMeta)
                => meta'[r].nextRoomID = meta[r].nextRoomID]_vars

\* C16 witness: after the room's next room was created for two players, the
\* other player asked to play again with numPlayers 1 and got the same room.
C16_Witness ==
    /\ last.op = "playAgain" /\ last.result = "ok"
    /\ last.args.numPlayers = <<1>>
    /\ last.args.playerID = "1"
    /\ last.args.credentials = AllSecrets[2]
    /\ last.body \in RoomIDs
    /\ meta[last.args.gameID].nextRoomID = last.body
    /\ db[last.body] # NoState
    /\ db[last.body].numPlayers = 2

C18_JoinMissingFieldForbidden ==
    [][(/\ last'.op = "join"
        /\ Missing(last'.args.playerID) \/ Missing(last'.args.playerName))
       => /\ last'.result = "Forbidden"
          /\ last'.body = Undefined
          /\ NothingWritten]_vars

\* C18 witness: a join without playerName for a playerID the room has no slot
\* for has just been answered Forbidden.
C18_Witness ==
    /\ last.op = "join" /\ last.result = "Forbidden"
    /\ last.args.playerName = Undefined
    /\ last.args.playerID = "1"
    /\ meta[last.args.gameID] # NoMeta
    /\ "1" \notin DOMAIN meta[last.args.gameID].players

\* The slot ids a room for numPlayers players has: 0 .. numPlayers - 1.
SlotIDs(numPlayers) == {AllPlayOrder[i] : i \in 1..numPlayers}

\* C19: a room's metadata is created with the slots 0 .. numPlayers - 1 of its
\* state, and as long as the room exists every join, rename, leave and
\* playAgain stores it with that same set of slots; a join with playerID and
\* playerName given that names no slot of an existing room is answered
\* NotFound and writes nothing.
C19_SlotSetFixed ==
    [][/\ \A r \in RoomIDs :
             /\ (meta[r] # NoMeta /\ meta'[r] # NoMeta)
                   => DOMAIN meta'[r].players = DOMAIN meta[r].players
             /\ meta'[r] # NoMeta
                   => /\ db'[r] # NoState
                      /\ DOMAIN meta'[r].players = SlotIDs(db'[r].numPlayers)
       /\ (/\ last'.op = "join"
           /\ ~Missing(last'.args.playerID)
           /\ ~Missing(last'.args.playerName)
           /\ meta[last'.args.gameID] # NoMeta
           /\ last'.args.playerID \notin DOMAIN meta[last'.args.gameID].players)
          => /\ last'.result = "NotFound"
             /\ last'.body = Undefined
             /\ NothingWritten]_vars

\* C19 witness: a join by name for a playerID outside the room's slots has just
\* been answered NotFound, in a room one player has joined and renamed in.
C19_Witness ==
    /\ last.op = "join" /\ last.result = "NotFound"
    /\ last.args.playerName = "alice"
    /\ meta[last.args.gameID] # NoMeta
    /\ last.args.playerID \notin DOMAIN meta[last.args.gameID].players
    /\ meta[last.args.gameID].players["0"].name = "ali"
    /\ meta[last.args.gameID].players["0"].credentials \in Secrets

\* The slots with every stored credentials replaced by one value.
WithCredentials(players, credentials) ==
    [id \in DOMAIN players |-> [players[id] EXCEPT !.credentials = credentials]]

\* The list has one entry per slot, in ascending slot id, holding the id and,
\* for a slot with a name, the name, and nothing else.
ListsSlots(list, players) ==
    /\ Len(list) = Cardinality(DOMAIN players)
    /\ \A i \in 1..Len(list) :
          /\ list[i].id = AllPlayOrder[i]
          /\ list[i].id \in DOMAIN players
          /\ IF players[list[i].id].name = Undefined
             THEN DOMAIN list[i] = {"id"}
             ELSE /\ DOMAIN list[i] = {"id", "name"}
                  /\ list[i].name = players[list[i].id].name

\* The list is the one the same slots give whatever credentials they store.
SameForAnyCredentials(list, players) ==
    \A cr \in CredentialsArgs :
       PlayersList(WithCredentials(players, cr), 1) = list

\* C20: the players list getRoom returns, and the one listRooms returns for
\* each room that has metadata, has one entry per slot in ascending slot id
\* with the id and, for a slot with a name only, the name, and never the
\* credentials; it is the list the same metadata gives with any other
\* credentials stored, or none.
C20_QueriesNeverRevealCredentials ==
    [][/\ (last'.op = "getRoom" /\ last'.result = "ok")
          => /\ last'.body.roomID = last'.args.gameID
             /\ ListsSlots(last'.body.players, meta[last'.args.gameID].players)
             /\ SameForAnyCredentials(last'.body.players,
                                      meta[last'.args.gameID].players)
       /\ last'.op = "listRooms"
          => /\ last'.result = "ok"
             /\ \A i \in 1..Len(last'.body) :
                   /\ meta[last'.body[i].gameID] # NoMeta
                   /\ ListsSlots(last'.body[i].players,
                                 meta[last'.body[i].gameID].players)
                   /\ SameForAnyCredentials(last'.body[i].players,
                                            meta[last'.body[i].gameID].players)
             /\ \A r \in RoomIDs :
                   (meta[r] # NoMeta /\ meta[r].gameName = last'.args.gameName)
                      => \E i \in 1..Len(last'.body) : last'.body[i].gameID = r
       /\ last'.op \in {"getRoom", "listRooms"} => NothingWritten]_vars

\* C20 witness: the rooms have just been listed, one of them with a slot that
\* holds name and credentials and a slot that is vacant.
C20_Witness ==
    /\ last.op = "listRooms" /\ last.result = "ok"
    /\ \E i \in 1..Len(last.body) :
          LET players == meta[last.body[i].gameID].players
          IN /\ Len(last.body[i].players) = 2
             /\ \E q \in DOMAIN players : players[q].credentials \in Secrets
             /\ \E q \in DOMAIN players : players[q] = VacantSlot

\* C22: a successful rename stores the room's metadata with the name of the
\* addressed slot set to newName and nothing else changed (the slot's
\* credentials, the other slots, nextRoomID), and changes no other room and no
\* stored state; a rename without newName is answered Forbidden and writes
\* nothing.
C22_RenameChangesOnlyName ==
    [][/\ (last'.op = "rename" /\ last'.result = "ok")
          => LET g == last'.args.gameID
                 p == last'.args.playerID
             IN /\ NamesSlot(g, p)
                /\ meta'[g] = [meta[g] EXCEPT !.players[p].name = last'.args.newName]
                /\ meta'[g].players[p].credentials = meta[g].players[p].credentials
                /\ \A r \in RoomIDs \ {g} : meta'[r] = meta[r]
                /\ db' = db /\ created' = created /\ issued' = issued
                /\ last'.msgs = <<>>
       /\ (last'.op = "rename" /\ Missing(last'.args.newName))
          => last'.result = "Forbidden" /\ NothingWritten]_vars

\* C22 witness: a joined player of a room that has a next room recorded has
\* just been renamed.
C22_Witness ==
    /\ last.op = "rename" /\ last.result = "ok"
    /\ meta[last.args.gameID].players[last.args.playerID].name = "ali"
    /\ meta[last.args.gameID].players[last.args.playerID].credentials \in Secrets
    /\ meta[last.args.gameID].nextRoomID \in RoomIDs

LobbyErrors == {"NotFound", "Forbidden", "Conflict"}

LobbyOps == {"create", "join", "rename", "leave", "playAgain", "getRoom", "listRooms"}

\* C23: a lobby request answered NotFound, Forbidden or Conflict leaves the
\* store as it was: no state and no metadata is written, wiped or created, and
\* no identifier or secret is generated.
C23_FailedRequestWritesNothing ==
    [][(last'.op \in LobbyOps /\ last'.result \in LobbyErrors)
          => NothingWritten /\ last'.body = Undefined]_vars

\* C23 witness: a leave with another player's credentials has just been
\* refused in a room where both players hold name and credentials.
C23_Witness ==
    /\ last.op = "leave" /\ last.result = "Forbidden"
    /\ last.args.credentials \in Secrets
    /\ NamesSlot(last.args.gameID, last.args.playerID)
    /\ \A q \in DOMAIN meta[last.args.gameID].players :
          /\ meta[last.args.gameID].players[q].name # Undefined
          /\ meta[last.args.gameID].players[q].credentials \in Secrets
    /\ Cardinality(DOMAIN meta[last.args.gameID].players) = 2

\* The version the store holds for a room, -1 when it holds none.
StoredVersion(state) == IF state = NoState THEN -1 ELSE state.stateID

C30_SyncReturnsLatestPersisted ==
    [][last'.op = "sync" =>
          LET m == last'.msgs[1]
              g == m.gameID
          IN /\ db[g] # NoState =>
                   m.state = PlayerView(db[g], clientInfo'[last'.args.conn].playerID)
             /\ \A v \in 0..MaxVersion :
                   applied[g][v] > 0 => m.state.stateID >= v + 1
             /\ \A d \in InFlight(g) :
                   /\ req[d].pc = "applied" => m.state.stateID < req[d].state.stateID
                   /\ req[d].pc = "persisted" => m.state.stateID = req[d].state.stateID]_vars

\* C30 witness: a sync has just been answered with version 1 while an update
\* of the same room from version 1, computed but not yet written, is in
\* progress.
C30_Witness ==
    /\ last.op = "sync"
    /\ last.msgs[1].state.stateID = 1
    /\ \E d \in InFlight(last.msgs[1].gameID) :
          /\ req[d].pc = "applied"
          /\ req[d].state.stateID = 2

HasState(r) == db[r] # NoState

HasMetadata(r) == meta[r] # NoMeta

\* C28 as stated: a room has a stored state exactly when it has stored
\* metadata.
C28_StateIffMetadata == \A r \in RoomIDs : HasState(r) <=> HasMetadata(r)

\* C28, amended: a room with stored metadata has a stored state. Metadata
\* appears only with a create or playAgain that stores a state for the same,
\* until then unknown room; metadata disappears only with the wipe of a leave,
\* which removes the state too, and nothing else removes a state. A state
\* without metadata comes from a sync on an unknown room, or from an update in
\* progress whose write lands after the wipe.
C28_MetadataImpliesState ==
    [][\A r \in RoomIDs :
          /\ HasMetadata(r)' => HasState(r)'
          /\ (~HasMetadata(r) /\ HasMetadata(r)') =>
                /\ last'.op \in {"create", "playAgain"} /\ last'.body = r
                /\ ~HasState(r) /\ HasState(r)'
          /\ (HasMetadata(r) /\ ~HasMetadata(r)') =>
                /\ last'.op = "leave" /\ last'.args.gameID = r
                /\ ~HasState(r)'
          /\ (HasState(r) /\ ~HasState(r)') =>
                /\ last'.op = "leave" /\ last'.args.gameID = r
                /\ HasMetadata(r) /\ ~HasMetadata(r)'
          /\ (~HasState(r) /\ HasState(r)' /\ ~HasMetadata(r)') =>
                last'.op \in {"sync", "update"}]_vars

\* C28 witness: the last player has just left a room that had been updated,
\* the wipe removed its state and its metadata, and the next room it had asked
\* for holds both.
C28_Witness ==
    /\ last.op = "leave" /\ last.result = "ok"
    /\ ~HasState(last.args.gameID) /\ ~HasMetadata(last.args.gameID)
    /\ \E v \in 0..MaxVersion : applied[last.args.gameID][v] > 0
    /\ \E r \in RoomIDs : HasState(r) /\ HasMetadata(r)

\* The status a lobby handler answers with when the request reaches it.
HandlerStatus(request) ==
    IF request.op = "create"
    THEN IF request.args.gameName \in Games THEN "ok" ELSE "NotFound"
    ELSE IF request.op = "join"
    THEN JoinVerdict(request.args.gameID, request.args.playerID, request.args.playerName)
    ELSE IF request.op = "rename"
    THEN RenameVerdict(request.args.gameID, request.args.playerID,
                       request.args.credentials, request.args.newName)
    ELSE IF request.op \in {"leave", "playAgain"}
    THEN PlayerVerdict(request.args.gameID, request.args.playerID,
                       request.args.credentials)
    ELSE IF request.op = "getRoom"
    THEN IF meta[request.args.gameID] = NoMeta THEN "NotFound" ELSE "ok"
    ELSE "ok"

\* C21: on a lobby with an API secret, a request whose API-Secret header is
\* not the secret is answered Forbidden (403) before it reaches its handler and
\* writes nothing; a request with the secret in its header is answered by its
\* handler as on an unprotected lobby; and without a configured secret every
\* request reaches its handler with no header at all.
C21_SecretGate ==
    [][last'.op \in LobbyOps =>
          /\ apiSecret' = apiSecret
          /\ (apiSecret # Undefined /\ header' # apiSecret) =>
                /\ last'.result = "Forbidden" /\ last'.args = NoArgs
                /\ last'.body = Undefined
                /\ NothingWritten
          /\ (apiSecret # Undefined /\ header' = apiSecret) =>
                /\ last'.args # NoArgs
                /\ last'.result = HandlerStatus(last')
                /\ (last'.op = "create" /\ last'.result = "ok") =>
                      db'[last'.body] # NoState /\ meta'[last'.body] # NoMeta
          /\ apiSecret = Undefined =>
                /\ header' = Undefined
                /\ last'.args # NoArgs
                /\ last'.result = HandlerStatus(last')]_vars

\* C21 witness: on a protected lobby that holds a room with a player in it, a
\* request with a wrong API-Secret header has just been refused.
C21_Witness ==
    /\ apiSecret = "protected" /\ header = "wrong"
    /\ last.op \in LobbyOps /\ last.result = "Forbidden"
    /\ \E r \in RoomIDs : HasMetadata(r) /\ meta[r].players["0"].name = "alice"

Joined(k) == txn[k].pc = "done" /\ txn[k].op = "join" /\ txn[k].result = "ok"

\* The caller's join has been answered.
JoinAnswered(k) == txn[k].pc = "done" /\ txn[k].op = "join"

\* The slot the caller's request names, as stored.
StoredSlot(k) == meta[txn[k].args.gameID].players[txn[k].args.playerID]

\* C25: when two callers join different vacant slots of the same room, their
\* fetches and writes interleaving in any order, neither is refused and the
\* store ends up holding both: a join is refused only when the slot it names
\* holds a name in the store, every caller answered ok finds its name in its
\* slot with the credentials it was answered with, and two callers answered
\* ok hold different credentials.
C25_ConcurrentJoinsBothStored ==
    [][/\ \A k \in Callers :
             Joined(k)' =>
                StoredSlot(k)' = [name |-> k, credentials |-> txn'[k].body]
       /\ \A k1, k2 \in Callers :
             (k1 # k2 /\ Joined(k1)' /\ Joined(k2)') => txn'[k1].body # txn'[k2].body
       /\ \A k \in Callers :
             (txn'[k] # txn[k] /\ JoinAnswered(k)' /\ ~Joined(k)')
                => HasName(txn'[k].args.gameID, txn'[k].args.playerID)]_vars

\* C25 witness: alice holds slot 0 and bob slot 1 of the stored room, each
\* answered with its own credentials.
C25_Witness ==
    /\ Joined("alice") /\ txn["alice"].args.playerID = "0"
    /\ Joined("bob") /\ txn["bob"].args.playerID = "1"
    /\ txn["alice"].args.gameID = txn["bob"].args.gameID
    /\ StoredSlot("alice").name = "alice" /\ StoredSlot("bob").name = "bob"

\* C26: when two callers join the same vacant slot, at most one is answered
\* ok; the other is answered Conflict (or Forbidden), and the slot holds the
\* name of the caller that succeeded and the credentials it was answered with.
C26_SameSlotOneWinner ==
    \A k1, k2 \in Callers :
       (/\ k1 # k2
        /\ Joined(k1) /\ JoinAnswered(k2)
        /\ txn[k1].args.gameID = txn[k2].args.gameID
        /\ txn[k1].args.playerID = txn[k2].args.playerID)
       => /\ txn[k2].result \in {"Conflict", "Forbidden"}
          /\ txn[k2].body = Undefined
          /\ StoredSlot(k1).name = k1
          /\ StoredSlot(k1).credentials = txn[k1].body

\* C26 witness: alice and bob both asked for slot 0; bob got it and alice was
\* answered Conflict.
C26_Witness ==
    /\ Joined("bob") /\ txn["bob"].args.playerID = "0"
    /\ JoinAnswered("alice") /\ txn["alice"].args.playerID = "0"
    /\ txn["alice"].result = "Conflict"
    /\ StoredSlot("bob").name = "bob"

\* The caller has been answered with the next room of its room.
PlaysAgain(k) ==
    txn[k].pc = "done" /\ txn[k].op = "playAgain" /\ txn[k].result = "ok"

\* C27: the next room of a room is recorded at most once: once recorded it
\* never changes, two callers asking for the next room of the same room are
\* answered the same identifier, the recorded one, and only one next room is
\* created.
C27_OneSuccessor ==
    [][/\ \A k1, k2 \in Callers :
             (PlaysAgain(k1)' /\ PlaysAgain(k2)'
                 /\ txn'[k1].args.gameID = txn'[k2].args.gameID)
             => /\ txn'[k1].body = txn'[k2].body
                /\ txn'[k1].body = meta'[txn'[k1].args.gameID].nextRoomID
                /\ db'[txn'[k1].body] # NoState /\ meta'[txn'[k1].body] # NoMeta
       /\ Cardinality(created' \ {StoredRoomID}) <= 1
       /\ \A r \in DOMAIN meta :
             (HasMetadata(r) /\ meta[r].nextRoomID # Undefined)
                => meta'[r].nextRoomID = meta[r].nextRoomID]_vars

\* C27 witness: alice and bob, each holding a slot of the stored room, have
\* both asked for its next room and both been answered with the room created.
C27_Witness ==
    /\ PlaysAgain("alice") /\ PlaysAgain("bob")
    /\ txn["alice"].args.playerID # txn["bob"].args.playerID
    /\ txn["alice"].body = txn["bob"].body
    /\ HasMetadata(txn["alice"].body)

\* The room a step of the socket server is about.
StepRoom ==
    IF last'.op = "sync" THEN last'.msgs[1].gameID
    ELSE IF last'.op = "disconnect" THEN last'.args.from
    ELSE IF last'.args # NoArgs THEN last'.args.gameID
    ELSE CHOOSE g \in RoomIDs :
            \E c \in Conns : req'[c] # req[c] /\ req'[c] # Idle /\ req'[c].gameID = g

\* C31: a sync, an update or a disconnect about one room leaves every other
\* room alone: the other room's stored state and version and its count of
\* accepted updates are unchanged, its member set is unchanged except that a
\* connection syncing away from it is taken out, every message sent names the
\* room of the step, and none goes to a connection registered to another room.
C31_RoomsDoNotInterfere ==
    [][last'.op \in {"sync", "update", "disconnect"} =>
          \A B \in RoomIDs \ {StepRoom} :
             /\ db'[B] = db[B]
             /\ applied'[B] = applied[B]
             /\ \/ roomInfo'[B] = roomInfo[B]
                \/ /\ last'.op = "sync" /\ last'.args.from = B
                   /\ roomInfo'[B] = Without(roomInfo[B], last'.args.conn)
             /\ \A i \in DOMAIN last'.msgs :
                   /\ last'.msgs[i].gameID = StepRoom
                   /\ last'.msgs[i].to \notin DOMAIN roomInfo'[B]]_vars

\* C31 witness: an update of one room has just been broadcast to its one
\* member while the other connection is registered to the other room, which
\* holds a state of its own at a later version.
C31_Witness ==
    /\ last.op = "update" /\ last.result = "ok"
    /\ Len(last.msgs) = 1
    /\ \E B \in RoomIDs \ {last.args.gameID} :
          /\ DOMAIN roomInfo[B] # {}
          /\ db[B] # NoState
          /\ db[B].stateID > db[last.args.gameID].stateID

\* The slot of the stored room that joins can take, and the room.
OpenSlot == "1"
SlotRoom == AllRoomIDs[1]

\* Whether a rename, a leave or a playAgain of the open slot presenting these
\* credentials would be let through.
Authorizes(credentials) ==
    \/ PlayerVerdict(SlotRoom, OpenSlot, credentials) = "ok"
    \/ RenameVerdict(SlotRoom, OpenSlot, credentials, "ali") = "ok"

\* C32: credentials issued for a slot authorize no longer than the slot is
\* held with them. Every join that succeeds is a join of the open slot and
\* returns newly generated credentials, after which no credentials generated
\* earlier authorize a rename, leave or playAgain of the slot; after a leave
\* that succeeds, the credentials it presented authorize none either; a
\* rename, leave or playAgain of the slot that presents generated credentials
\* succeeds only with the ones generated last, and only while the slot still
\* stores them; and in every state the only generated credentials that
\* authorize are the ones generated last.
C32_OldCredentialsRefused ==
    [][/\ (last'.op = "join" /\ last'.result = "ok")
          => /\ last'.args.gameID = SlotRoom /\ last'.args.playerID = OpenSlot
             /\ issued' = issued + 1
             /\ last'.body = AllSecrets[issued']
             /\ \A old \in IssuedSecrets : ~Authorizes(old)'
       /\ \A cr \in Secrets :
             (/\ last'.op = "leave" /\ last'.result = "ok"
              /\ last'.args.credentials = cr)
             => ~Authorizes(cr)'
       /\ (/\ last'.op \in PlayerOps /\ last'.result = "ok"
           /\ last'.args.credentials \in Secrets)
          => /\ last'.args.playerID = OpenSlot
             /\ issued > 0
             /\ last'.args.credentials = AllSecrets[issued]
             /\ meta[SlotRoom].players[OpenSlot].credentials = last'.args.credentials
       /\ \A cr \in Secrets :
             Authorizes(cr)' => (issued' > 0 /\ cr = AllSecrets[issued'])]_vars

\* C32 witness: the open slot was joined, left and joined again, so that it
\* stores the second credentials generated, and a rename, leave or playAgain
\* presenting the first ones has just been refused.
C32_Witness ==
    /\ last.op \in PlayerOps /\ last.result = "Forbidden"
    /\ last.args.gameID = SlotRoom /\ last.args.playerID = OpenSlot
    /\ last.args.credentials = AllSecrets[1]
    /\ issued = 2
    /\ meta[SlotRoom].players[OpenSlot].credentials = AllSecrets[2]

\* C33: in every state the lobby reaches from createGame by join, rename,
\* leave and playAgain, every slot of every stored room has a name exactly when
\* it has credentials, so that a slot is occupied exactly when it is not
\* claimable and a join, which looks at the name only, never overwrites
\* credentials a slot still holds.
C33_NameIffCredentials ==
    \A g \in RoomIDs :
       meta[g] # NoMeta =>
          \A p \in DOMAIN meta[g].players :
             (meta[g].players[p].name # Undefined)
                <=> (meta[g].players[p].credentials # Undefined)

\* The names the panel was given, in the order the loops visit them.
PanelNames == EventKeys(props.moves, props.events)

\* Whether the first characters of the names are all different and none is a
\* key of the panel.
FirstCharsUsable ==
    /\ \A i, j \in DOMAIN PanelNames :
          PanelNames[i][1] = PanelNames[j][1] => i = j
    /\ \A i \in DOMAIN PanelNames : PanelNames[i][1] \notin {"d", "l", "i", "t"}

\* The first letter from 'a' on that is neither a key of the panel nor the
\* shortcut of one of the first k - 1 names.
NextLetter(k) ==
    LET used == {"d", "l", "i", "t"} \cup {shortcuts.byName[PanelNames[j]] : j \in 1..(k - 1)}
        free == {n \in DOMAIN CharTable : CharTable[n] \notin used}
    IN CharTable[CHOOSE n \in free : \A m \in free : n <= m]

\* C34: once assignShortcuts has run, every move and event name has a
\* shortcut of one character, no two names have the same shortcut and no
\* shortcut is d, l, i or t; when the first characters of the names are all
\* different and none of them is d, l, i or t, each name's shortcut is its
\* first character; otherwise the names get, in order, the letters from 'a'
\* on, each name the first letter that is neither d, l, i, t nor the shortcut
\* of an earlier name.
C34_ShortcutsAssigned ==
    shortcuts # NoShortcuts =>
       /\ DOMAIN shortcuts.byName = {PanelNames[i] : i \in DOMAIN PanelNames}
       /\ \A i \in DOMAIN PanelNames :
             \E n \in DOMAIN CharTable \cup {0} :
                shortcuts.byName[PanelNames[i]] =
                   IF n = 0 THEN PanelNames[i][1] ELSE CharTable[n]
       /\ \A i, j \in DOMAIN PanelNames :
             shortcuts.byName[PanelNames[i]] = shortcuts.byName[PanelNames[j]] => i = j
       /\ \A i \in DOMAIN PanelNames :
             shortcuts.byName[PanelNames[i]] \notin {"d", "l", "i", "t"}
       /\ IF FirstCharsUsable
          THEN \A i \in DOMAIN PanelNames :
                  shortcuts.byName[PanelNames[i]] = PanelNames[i][1]
          ELSE \A i \in DOMAIN PanelNames :
                  shortcuts.byName[PanelNames[i]] = NextLetter(i)
====
